---- MODULE Spec2Model ----
(***************************************************************************)
(* Governance evaluation, deployment gate and audit trail of the           *)
(* DriftGuardAI backend (backend/app/api/governance.py,                     *)
(* backend/app/services/governance_service.py,                              *)
(* backend/app/services/audit_service.py).                                  *)
(*                                                                         *)
(* Each HTTP request is a process that runs in its own database session.    *)
(* A step of a request is the code between two database commits, so the    *)
(* interleavings of the model are the interleavings of the committed       *)
(* transactions.  Risk scores, risk components and the MRI thresholds of a *)
(* policy are hundredths of a point (8000 stands for 80.0), disparity      *)
(* scores and approval rates are hundredths (15 stands for 0.15), and a    *)
(* timestamp is the number of a clock tick.                                *)
(*                                                                         *)
(* Spec has one governance request in flight at a time, interleaved with   *)
(* the policy administration, the metric services and the simulation       *)
(* reset.  SpecConcurrent has two governance requests in flight.           *)
(* SpecGovernanceCheck runs the governance simulation endpoint of          *)
(* backend/app/api/simulation.py.  SpecMetrics, SpecSimulation and         *)
(* SpecAudit store the rows of risk_history and fairness_metrics in full:  *)
(* they run the background tasks of backend/app/api/fairness.py and        *)
(* backend/app/api/drift.py over backend/app/services/fairness_service.py  *)
(* and backend/app/services/risk_service.py, and the demo simulation of    *)
(* backend/app/services/model_simulation_service.py.  In these             *)
(* specifications and in those before them the prediction_logs and         *)
(* drift_metrics tables are not written: what a call reads from them is an *)
(* input of its action.                                                    *)
(*                                                                         *)
(* SpecDrift, SpecPipeline, SpecRiskEntry and SpecRunSimulation store the  *)
(* prediction_logs and drift_metrics tables as well and compute the        *)
(* metrics from them: they run backend/app/api/logs.py, the background     *)
(* tasks over backend/app/services/drift_service.py, the queries of        *)
(* create_risk_history_entry one by one, and run_simulation commit by      *)
(* commit with the failure of each commit.  SpecPolicies runs the policy   *)
(* administration with policies of two names.                              *)
(***************************************************************************)
EXTENDS Integers, Sequences, FiniteSets, TLC

VARIABLES
    status,             \* ModelRegistry.status of the registered model
    deployment_status,  \* ModelRegistry.deployment_status of that model
    policies,           \* governance_policies table: id -> row or NoRow
    risk_history,       \* risk_history rows of the model, oldest first
    fairness_metrics,   \* fairness_metrics rows of the model, oldest first
    audit_log,          \* audit_logs table, oldest first
    req,                \* the requests in flight: client -> request record
    started,            \* the number of requests accepted so far
    prediction_logs,    \* prediction_logs rows of the model, oldest first
    drift_metrics       \* drift_metrics rows of the model, oldest first

vars == <<status, deployment_status, policies, risk_history,
          fairness_metrics, audit_log, req, started, prediction_logs,
          drift_metrics>>

-----------------------------------------------------------------------------
(* Bounds of the exploration *)

MaxRequests == 2
MaxRows == 1

(* SpecMetrics: the rows a metric task may add to risk_history and to      *)
(* fairness_metrics                                                        *)
MaxRiskRows == 2
MaxFairnessRows == 3

(* The clock tick after which no metric task and no demo simulation starts *)
MaxTicks == 4

(* SpecDrift, SpecPipeline, SpecRiskEntry: no drift calculation starts on  *)
(* a drift_metrics table of this many rows                                 *)
MaxDriftRows == 2

(* The clients that can have a request in flight at the same time *)
Reqs == {"r1", "r2"}

(* The client of Spec *)
SequentialReqs == {"r1"}

(* The risk scores that the risk service stores in SpecConcurrent and in   *)
(* SpecReset                                                               *)
ConcurrentRiskValues == {9500}
ResetRiskValues == {8000, 9500}

(* The ids a governance policy row can take *)
PolicyIds == {1, 2}

(* The risk scores and disparity scores that the metric services store *)
RiskValues == {8000, 9500}
DisparityValues == {20}

(* The rows and policies that SpecRules evaluates *)
RulesRiskValues == {4000, 6000, 6500, 8000, 9500}
RulesDisparityValues == {5, 15, 20}
RulesPolicyInputs ==
    { [name |-> "default", max_allowed_mri |-> 8000,
       max_allowed_disparity |-> 15, approval_required_above_mri |-> 6000],
      [name |-> "inverted", max_allowed_mri |-> 6000,
       max_allowed_disparity |-> 20, approval_required_above_mri |-> 8000] }

(* The fairness scores sent to the governance simulation, in hundredths   *)
(* of a point: 100 - fairness_score is 0.05, 0.15, 0.20 and 20.0           *)
SimFairnessValues == {9995, 9985, 9980, 8000}

(* The drift components that calculate_drift_component returns where the  *)
(* drift_metrics table is not written: a call reads one of these           *)
DriftComponentValues == {0, 9000}

(* The prediction logs that a fairness evaluation reads: the value of the  *)
(* protected attribute and the prediction (hundredths) of each log.  The   *)
(* prediction_logs table is not part of the state.  The logs of a group    *)
(* number 1 or 2, so that its approval rate is a whole number of           *)
(* hundredths.                                                             *)
PredictionLogInputs ==
    { <<>>,
      <<[group |-> "Male", prediction |-> 90],
        [group |-> "Male", prediction |-> 10]>>,
      <<[group |-> "Male", prediction |-> 90],
        [group |-> "Female", prediction |-> 10],
        [group |-> "Male", prediction |-> 90],
        [group |-> "Female", prediction |-> 90]>> }

(* A sample of the 500 logs that the demo simulation generates: both       *)
(* genders, drawn at random                                                *)
SimulationLogInputs ==
    { <<[group |-> "Male", prediction |-> 90],
        [group |-> "Female", prediction |-> 90],
        [group |-> "Male", prediction |-> 10],
        [group |-> "Female", prediction |-> 90]>> }

(* The bodies of the policy create requests *)
PolicyInputs ==
    { [name |-> "default", max_allowed_mri |-> 8000,
       max_allowed_disparity |-> 15, approval_required_above_mri |-> 6000] }

-----------------------------------------------------------------------------
(* The tables *)

NoRow == [absent |-> TRUE]

NoPolicy == [found |-> FALSE]

None == "None"

(* ModelRegistry.status and deployment_status default to "draft" *)
DefaultStatus == "draft"

(* GovernancePolicy.active == True *)
ActivePolicyIds == {p \in PolicyIds : policies[p] # NoRow /\ policies[p].active}

(* The greatest timestamp stored in a table that has rows *)
MaxTimestamp(rows) ==
    CHOOSE t \in {rows[i].timestamp : i \in DOMAIN rows} :
        \A i \in DOMAIN rows : rows[i].timestamp <= t

(* datetime.utcnow() of a request that runs alone: a tick later than every *)
(* timestamp stored in the table                                           *)
utcnow(rows) == IF rows = <<>> THEN 1 ELSE MaxTimestamp(rows) + 1

(* The latest-row query that returns the row inserted last, whatever its   *)
(* timestamp                                                               *)
get_latest_by_id(rows) == {rows[Len(rows)]}

(* query(...).order_by(timestamp.desc()).first() on a table that has rows: *)
(* the rows the query can return                                           *)
get_latest_risk_score(rows) ==
    {rows[i] : i \in {j \in DOMAIN rows : rows[j].timestamp = MaxTimestamp(rows)}}

(* RiskHistory ... order_by(timestamp.desc()).first(), 0.0 if there is none *)
LatestRiskScore(rows) ==
    IF rows = <<>> THEN 0
    ELSE (CHOOSE row \in get_latest_risk_score(rows) : TRUE).risk_score

(* FairnessMetric ... order_by(timestamp.desc()).first(), 0.0 if there is none *)
LatestDisparityScore(rows) ==
    IF rows = <<>> THEN 0
    ELSE (CHOOSE row \in get_latest_risk_score(rows) : TRUE).disparity_score

-----------------------------------------------------------------------------
(* evaluate_model_governance: the rules *)

ReasonMaxMri == "Risk score exceeds max allowed"
ReasonDisparity == "Disparity exceeds max allowed"
ReasonApproval == "Risk score requires approval"
ReasonPassed == "All governance checks passed"
ReasonNoPolicy == "No active policy"

(* EvaluateRules with the hard block firing at the ceiling itself *)
EvaluateRulesAtCeiling(risk_score, disparity_score, policy) ==
    IF risk_score >= policy.max_allowed_mri
    THEN [status |-> "blocked", reason |-> ReasonMaxMri]
    ELSE IF disparity_score > policy.max_allowed_disparity
    THEN [status |-> "at_risk", reason |-> ReasonDisparity]
    ELSE IF risk_score > policy.approval_required_above_mri
    THEN [status |-> "at_risk", reason |-> ReasonApproval]
    ELSE [status |-> "approved", reason |-> ReasonPassed]

EvaluateRules(risk_score, disparity_score, policy) ==
    IF risk_score > policy.max_allowed_mri
    THEN [status |-> "blocked", reason |-> ReasonMaxMri]
    ELSE IF disparity_score > policy.max_allowed_disparity
    THEN [status |-> "at_risk", reason |-> ReasonDisparity]
    ELSE IF risk_score > policy.approval_required_above_mri
    THEN [status |-> "at_risk", reason |-> ReasonApproval]
    ELSE [status |-> "approved", reason |-> ReasonPassed]

(* The dictionary evaluate_model_governance returns when a policy is active *)
EvaluationResult(risk_score, disparity_score, policy) ==
    [status |-> EvaluateRules(risk_score, disparity_score, policy).status,
     reason |-> EvaluateRules(risk_score, disparity_score, policy).reason,
     scores |-> <<risk_score, disparity_score>>]

(* NoPolicyResult falling back to draft instead of the stored status *)
NoPolicyResultDraft(stored_status) ==
    [status |-> "draft", reason |-> ReasonNoPolicy, scores |-> <<>>]

(* The dictionary it returns when no policy is active: the stored status,  *)
(* and no risk_score or disparity_score key                                *)
NoPolicyResult(stored_status) ==
    [status |-> stored_status, reason |-> ReasonNoPolicy, scores |-> <<>>]

(* result.get("risk_score", 0.0), result.get("disparity_score", 0.0) *)
GetScore(result, i) == IF result.scores = <<>> THEN 0 ELSE result.scores[i]

-----------------------------------------------------------------------------
(* The requests.  A request record holds the locals of the handler (kind,  *)
(* override, pass, result, override_status), its response (outcome,        *)
(* override_used) and what the properties need to know about the call:     *)
(* the status, policy and latest metrics in the database when its          *)
(* evaluation ran (prev_status, policy, metrics) and how many times it     *)
(* called the audit recorder and how many of these calls failed.  A metric *)
(* task holds the RiskHistory object it has built (risk_entry).            *)

IdleRequest ==
    [pc |-> "idle", kind |-> None, override |-> FALSE, pass |-> 0,
     prev_status |-> None, policy |-> NoPolicy, metrics |-> <<>>,
     result |-> NoPolicyResult(None), override_status |-> "no",
     outcome |-> None, override_used |-> FALSE,
     audit_attempts |-> 0, audit_failures |-> 0,
     risk_entry |-> NoRow]

Init ==
    /\ status = DefaultStatus
    /\ deployment_status = DefaultStatus
    /\ policies = [p \in PolicyIds |-> NoRow]
    /\ risk_history = <<>>
    /\ fairness_metrics = <<>>
    /\ audit_log = <<>>
    /\ req = [r \in Reqs |-> IdleRequest]
    /\ started = 0
    /\ prediction_logs = <<>>
    /\ drift_metrics = <<>>

-----------------------------------------------------------------------------
(* Policy administration: api/governance.py, policy_router *)

(* The GovernancePolicy row built from the body of the request *)
PolicyRow(input, active) ==
    [name |-> input.name,
     max_allowed_mri |-> input.max_allowed_mri,
     max_allowed_disparity |-> input.max_allowed_disparity,
     approval_required_above_mri |-> input.approval_required_above_mri,
     active |-> active]

create_policy(p, input, active) ==
    /\ policies[p] = NoRow
    /\ \A q \in PolicyIds : policies[q] # NoRow => policies[q].name # input.name
    /\ policies' = [policies EXCEPT ![p] = PolicyRow(input, active)]
    /\ UNCHANGED <<prediction_logs, drift_metrics>>
    /\ UNCHANGED <<status, deployment_status, risk_history, fairness_metrics,
                   audit_log, req, started>>

update_policy(p, active) ==
    /\ policies[p] # NoRow
    /\ policies' = [policies EXCEPT ![p].active = active]
    /\ UNCHANGED <<prediction_logs, drift_metrics>>
    /\ UNCHANGED <<status, deployment_status, risk_history, fairness_metrics,
                   audit_log, req, started>>

delete_policy(p) ==
    /\ policies[p] # NoRow
    /\ policies' = [policies EXCEPT ![p] = NoRow]
    /\ UNCHANGED <<prediction_logs, drift_metrics>>
    /\ UNCHANGED <<status, deployment_status, risk_history, fairness_metrics,
                   audit_log, req, started>>

-----------------------------------------------------------------------------
(* The metric services append rows; each insert is its own commit *)

create_risk_history_entry(risk_score) ==
    /\ Len(risk_history) < MaxRows
    /\ risk_history' = Append(risk_history,
            [risk_score |-> risk_score, timestamp |-> utcnow(risk_history)])
    /\ UNCHANGED <<prediction_logs, drift_metrics>>
    /\ UNCHANGED <<status, deployment_status, policies, fairness_metrics,
                   audit_log, req, started>>

calculate_fairness_for_model(disparity_score) ==
    /\ Len(fairness_metrics) < MaxRows
    /\ fairness_metrics' =
            Append(fairness_metrics,
                [disparity_score |-> disparity_score,
                 timestamp |-> utcnow(fairness_metrics)])
    /\ UNCHANGED <<prediction_logs, drift_metrics>>
    /\ UNCHANGED <<status, deployment_status, policies, risk_history,
                   audit_log, req, started>>

(* reset_simulation deleting the audit records of the model as well *)
reset_simulation_with_audit ==
    /\ risk_history' = <<>>
    /\ fairness_metrics' = <<>>
    /\ audit_log' = <<>>
    /\ prediction_logs' = <<>>
    /\ drift_metrics' = <<>>
    /\ status' = "draft"
    /\ UNCHANGED <<deployment_status, policies, req, started>>

(* POST /models/{id}/reset-simulation: deletes the prediction logs and the *)
(* metric rows of the model and sets its status to draft, in one commit    *)
reset_simulation ==
    /\ prediction_logs' = <<>>
    /\ risk_history' = <<>>
    /\ drift_metrics' = <<>>
    /\ fairness_metrics' = <<>>
    /\ status' = "draft"
    /\ UNCHANGED <<deployment_status, policies, audit_log, req, started>>

-----------------------------------------------------------------------------
(* evaluate_model_governance, up to its commit *)

(* db.query(GovernancePolicy).filter(active == True).first(): the query    *)
(* has no ORDER BY, so any active row can be the one returned              *)
PolicyQuery ==
    IF ActivePolicyIds = {} THEN {NoPolicy}
    ELSE {policies[p] : p \in ActivePolicyIds}

(* Where a handler continues after evaluate_model_governance returned *)
AfterEvaluation(kind, pass) ==
    CASE kind = "deploy" -> "gate"
      [] kind = "evaluate" -> "audit"
      [] kind = "explanation" /\ pass = 1 -> "fallback"
      [] OTHER -> "done"

(* EvaluationRead that leaves a deployed model alone: it returns the       *)
(* stored status of a deployed model instead of the verdict of the rules   *)
EvaluationReadKeepsDeployed(r, kind, override, pass, policy) ==
    [req[r] EXCEPT
        !.pc = IF policy = NoPolicy THEN AfterEvaluation(kind, pass)
               ELSE "eval_commit",
        !.kind = kind,
        !.prev_status = status,
        !.policy = policy,
        !.metrics = <<LatestRiskScore(risk_history),
                      LatestDisparityScore(fairness_metrics)>>,
        !.override_status = "no",
        !.override_used = FALSE,
        !.audit_attempts = 0,
        !.audit_failures = 0,
        !.override = override,
        !.pass = pass,
        !.result = IF policy = NoPolicy THEN NoPolicyResult(status)
                   ELSE IF status = "deployed"
                   THEN [status |-> status, reason |-> ReasonPassed,
                         scores |-> <<LatestRiskScore(risk_history),
                                      LatestDisparityScore(fairness_metrics)>>]
                   ELSE EvaluationResult(LatestRiskScore(risk_history),
                            LatestDisparityScore(fairness_metrics), policy),
        !.outcome = IF policy = NoPolicy
                       /\ AfterEvaluation(kind, pass) = "done"
                    THEN "200_ok" ELSE None]

(* The reads of evaluate_model_governance and the result it computes.      *)
(* With no active policy it returns at once and writes nothing.            *)
EvaluationRead(r, kind, override, pass, policy) ==
    [req[r] EXCEPT
        !.pc = IF policy = NoPolicy THEN AfterEvaluation(kind, pass)
               ELSE "eval_commit",
        !.kind = kind,
        !.prev_status = status,
        !.policy = policy,
        !.metrics = <<LatestRiskScore(risk_history),
                      LatestDisparityScore(fairness_metrics)>>,
        !.override_status = "no",
        !.override_used = FALSE,
        !.audit_attempts = 0,
        !.audit_failures = 0,
        !.override = override,
        !.pass = pass,
        !.result = IF policy = NoPolicy THEN NoPolicyResult(status)
                   ELSE EvaluationResult(LatestRiskScore(risk_history),
                            LatestDisparityScore(fairness_metrics), policy),
        !.outcome = IF policy = NoPolicy
                       /\ AfterEvaluation(kind, pass) = "done"
                    THEN "200_ok" ELSE None]

CanStart(r) ==
    /\ req[r].pc \in {"idle", "done"}
    /\ started < MaxRequests

(* POST /governance/models/{id}/evaluate *)
evaluate_governance(r) ==
    /\ CanStart(r)
    /\ \E policy \in PolicyQuery :
          req' = [req EXCEPT ![r] =
                    EvaluationRead(r, "evaluate", FALSE, 1, policy)]
    /\ started' = started + 1
    /\ UNCHANGED <<prediction_logs, drift_metrics>>
    /\ UNCHANGED <<status, deployment_status, policies, risk_history,
                   fairness_metrics, audit_log>>

(* POST /governance/models/{id}/deploy?override=... *)
deploy_model(r, override) ==
    /\ CanStart(r)
    /\ \E policy \in PolicyQuery :
          req' = [req EXCEPT ![r] =
                    EvaluationRead(r, "deploy", override, 1, policy)]
    /\ started' = started + 1
    /\ UNCHANGED <<prediction_logs, drift_metrics>>
    /\ UNCHANGED <<status, deployment_status, policies, risk_history,
                   fairness_metrics, audit_log>>

(* GET /governance/models/{id}/explanation *)
get_governance_explanation(r) ==
    /\ CanStart(r)
    /\ \E policy \in PolicyQuery :
          req' = [req EXCEPT ![r] =
                    EvaluationRead(r, "explanation", FALSE, 1, policy)]
    /\ started' = started + 1
    /\ UNCHANGED <<prediction_logs, drift_metrics>>
    /\ UNCHANGED <<status, deployment_status, policies, risk_history,
                   fairness_metrics, audit_log>>

(* evaluate_commit that protects a deployed model: it leaves the status   *)
(* deployed where it finds it                                              *)
evaluate_commit_keeps_deployed(r) ==
    /\ req[r].pc = "eval_commit"
    /\ status' = IF status = "deployed" THEN status ELSE req[r].result.status
    /\ req' = [req EXCEPT
            ![r].pc = AfterEvaluation(req[r].kind, req[r].pass),
            ![r].outcome =
                IF AfterEvaluation(req[r].kind, req[r].pass) = "done"
                THEN "200_ok" ELSE None]
    /\ UNCHANGED <<prediction_logs, drift_metrics>>
    /\ UNCHANGED <<deployment_status, policies, risk_history,
                   fairness_metrics, audit_log, started>>

(* model.status = new_status; db.commit() *)
evaluate_commit(r) ==
    /\ req[r].pc = "eval_commit"
    /\ status' = req[r].result.status
    /\ req' = [req EXCEPT
            ![r].pc = AfterEvaluation(req[r].kind, req[r].pass),
            ![r].outcome =
                IF AfterEvaluation(req[r].kind, req[r].pass) = "done"
                THEN "200_ok" ELSE None]
    /\ UNCHANGED <<prediction_logs, drift_metrics>>
    /\ UNCHANGED <<deployment_status, policies, risk_history,
                   fairness_metrics, audit_log, started>>

(* get_governance_explanation_with_ai: awaiting the explanation raises     *)
(* (the client is None, or its generate_explanation returns a dict, which  *)
(* cannot be awaited), and the except branch evaluates a second time       *)
explanation_fallback(r) ==
    /\ req[r].pc = "fallback"
    /\ \E policy \in PolicyQuery :
          req' = [req EXCEPT ![r] =
                    EvaluationRead(r, "explanation", FALSE, 2, policy)]
    /\ UNCHANGED <<prediction_logs, drift_metrics>>
    /\ UNCHANGED <<status, deployment_status, policies, risk_history,
                   fairness_metrics, audit_log, started>>

-----------------------------------------------------------------------------
(* The audit recorder *)

(* log_governance_action: add, commit; on an exception roll back and raise *)
log_governance_action(log, entry, write_ok) ==
    IF write_ok THEN Append(log, entry) ELSE log

(* AfterAudit without the try/except: the failure of the audit write       *)
(* becomes the failure of the request                                      *)
AfterAuditUncaught(outcome, write_ok) ==
    IF write_ok THEN outcome ELSE "500_error"

(* try: log_governance_action(...) except Exception: logger.error(...)     *)
(* the handler goes on to the return or raise it was about to make         *)
AfterAudit(outcome, write_ok) == outcome

(* The request after one call of the audit recorder *)
AuditCall(request, write_ok) ==
    [request EXCEPT !.audit_attempts = @ + 1,
                    !.audit_failures = IF write_ok THEN @ ELSE @ + 1]

EvaluateAuditEntry(result) ==
    [action |-> "governance_evaluate", action_status |-> "success",
     scores |-> result.scores, governance_status |-> result.status,
     deployment_status |-> None, override_used |-> None,
     details |-> result.reason]

DeploymentAuditEntry(result, action_status, deployed, override_status, details) ==
    [action |-> "deployment", action_status |-> action_status,
     scores |-> <<GetScore(result, 1), GetScore(result, 2)>>,
     governance_status |-> result.status,
     deployment_status |-> deployed, override_used |-> override_status,
     details |-> details]

(* evaluate_governance after evaluate_model_governance returned *)
evaluate_audit(r, write_ok) ==
    /\ req[r].pc = "audit"
    /\ req[r].kind = "evaluate"
    /\ audit_log' = log_governance_action(audit_log,
                        EvaluateAuditEntry(req[r].result), write_ok)
    /\ req' = [req EXCEPT ![r] =
            [AuditCall(req[r], write_ok) EXCEPT
                !.pc = "done",
                !.outcome = AfterAudit("200_ok", write_ok)]]
    /\ UNCHANGED <<prediction_logs, drift_metrics>>
    /\ UNCHANGED <<status, deployment_status, policies, risk_history,
                   fairness_metrics, started>>

-----------------------------------------------------------------------------
(* The deployment gate *)

(* OverrideStatus that repeats the flag of the request *)
OverrideStatusFromFlag(override, current_status) ==
    IF override THEN "yes" ELSE "no"

(* override_status = "yes" if override and current_status == "at_risk" *)
OverrideStatus(override, current_status) ==
    IF override /\ current_status = "at_risk" THEN "yes" ELSE "no"

(* GateDecision with the override honoured for a hard block *)
GateDecisionOverridable(current_status, override) ==
    IF current_status = "blocked" /\ ~override THEN "hard_block"
    ELSE IF current_status = "at_risk" /\ ~override THEN "soft_gate"
    ELSE "deploy"

(* GateDecision with the soft gate closed whatever the override flag *)
GateDecisionNoOverride(current_status, override) ==
    IF current_status = "blocked" THEN "hard_block"
    ELSE IF current_status = "at_risk" THEN "soft_gate"
    ELSE "deploy"

(* The branch deploy_model takes on the status the evaluation returned *)
GateDecision(current_status, override) ==
    IF current_status = "blocked" THEN "hard_block"
    ELSE IF current_status = "at_risk" /\ ~override THEN "soft_gate"
    ELSE "deploy"

(* if current_status == "blocked": log the attempt, raise 403 *)
deny_hard_block(r, write_ok) ==
    /\ audit_log' = log_governance_action(audit_log,
            DeploymentAuditEntry(req[r].result, "blocked", "blocked", "no",
                "hard_block"), write_ok)
    /\ req' = [req EXCEPT ![r] =
            [AuditCall(req[r], write_ok) EXCEPT
                !.pc = "done",
                !.outcome = AfterAudit("403_hard_block", write_ok)]]
    /\ UNCHANGED <<prediction_logs, drift_metrics>>
    /\ UNCHANGED <<status, deployment_status>>

(* deny_soft_gate that raises the 403 without logging the attempt *)
deny_soft_gate_unlogged(r, write_ok) ==
    /\ req' = [req EXCEPT ![r].pc = "done", ![r].outcome = "403_soft_gate"]
    /\ UNCHANGED <<prediction_logs, drift_metrics>>
    /\ UNCHANGED <<status, deployment_status, audit_log>>

(* if current_status == "at_risk" and not override: log, raise 403 *)
deny_soft_gate(r, write_ok) ==
    /\ audit_log' = log_governance_action(audit_log,
            DeploymentAuditEntry(req[r].result, "rejected", "blocked", "no",
                "soft_gate"), write_ok)
    /\ req' = [req EXCEPT ![r] =
            [AuditCall(req[r], write_ok) EXCEPT
                !.pc = "done",
                !.outcome = AfterAudit("403_soft_gate", write_ok)]]
    /\ UNCHANGED <<prediction_logs, drift_metrics>>
    /\ UNCHANGED <<status, deployment_status>>

(* model.status = "deployed"; model.deployment_status = "deployed"; commit *)
mark_deployed(r) ==
    /\ status' = "deployed"
    /\ deployment_status' = "deployed"
    /\ req' = [req EXCEPT
            ![r].pc = "audit",
            ![r].override_status =
                OverrideStatus(req[r].override, req[r].result.status)]
    /\ UNCHANGED audit_log

(* deploy_model from the return of the evaluation to the commit of the     *)
(* deployment or the 403                                                   *)
deploy_gate(r, write_ok) ==
    /\ req[r].pc = "gate"
    /\ LET decision == GateDecision(req[r].result.status, req[r].override)
       IN  CASE decision = "hard_block" -> deny_hard_block(r, write_ok)
             [] decision = "soft_gate" -> deny_soft_gate(r, write_ok)
             [] OTHER -> write_ok /\ mark_deployed(r)
    /\ UNCHANGED <<prediction_logs, drift_metrics>>
    /\ UNCHANGED <<policies, risk_history, fairness_metrics, started>>

(* deploy_model after the commit of the deployment *)
deploy_audit(r, write_ok) ==
    /\ req[r].pc = "audit"
    /\ req[r].kind = "deploy"
    /\ audit_log' = log_governance_action(audit_log,
            DeploymentAuditEntry(req[r].result, "success", "deployed",
                req[r].override_status,
                IF req[r].result.status = "approved" THEN "approved"
                ELSE "override_used"),
            write_ok)
    /\ req' = [req EXCEPT ![r] =
            [AuditCall(req[r], write_ok) EXCEPT
                !.pc = "done",
                !.outcome = AfterAudit("200_deployed", write_ok),
                !.override_used = (req[r].override_status = "yes")]]
    /\ UNCHANGED <<prediction_logs, drift_metrics>>
    /\ UNCHANGED <<status, deployment_status, policies, risk_history,
                   fairness_metrics, started>>

-----------------------------------------------------------------------------
(* Governance simulation mode: api/simulation.py *)

SimReasonHardLimit == "Risk score exceeds hard limit"
SimReasonDisparity == "Disparity exceeds limit"
SimReasonApproval == "Risk requires approval"

(* simulate_governance_check with the approval threshold tested before the *)
(* fairness limit                                                          *)
simulate_governance_check_approval_first(risk_score, fairness_score, override, policy) ==
    LET disparity_score == 10000 - fairness_score
    IN  IF risk_score > policy.max_allowed_mri
        THEN [would_pass |-> FALSE, reason |-> SimReasonHardLimit,
              compliance_grade |-> "F",
              details |-> [risk_evaluation |-> "BLOCKED",
                           fairness_evaluation |-> None]]
        ELSE IF risk_score > policy.approval_required_above_mri
        THEN [would_pass |-> override, reason |-> SimReasonApproval,
              compliance_grade |-> IF override THEN "C" ELSE "B",
              details |-> [risk_evaluation |-> "APPROVAL_REQUIRED",
                           fairness_evaluation |-> None]]
        ELSE IF disparity_score > policy.max_allowed_disparity
        THEN [would_pass |-> override, reason |-> SimReasonDisparity,
              compliance_grade |-> IF override THEN "D" ELSE "F",
              details |-> [risk_evaluation |-> None,
                           fairness_evaluation |-> "AT_RISK"]]
        ELSE [would_pass |-> TRUE, reason |-> ReasonPassed,
              compliance_grade |-> "A",
              details |-> [risk_evaluation |-> "APPROVED",
                           fairness_evaluation |-> "APPROVED"]]

(* simulate_governance_check: fairness_score is a score of 0..100 points,  *)
(* here in hundredths of a point, and 100 - fairness_score is compared     *)
(* with policy.max_allowed_disparity as it stands                          *)
simulate_governance_check(risk_score, fairness_score, override, policy) ==
    LET disparity_score == 10000 - fairness_score
    IN  IF risk_score > policy.max_allowed_mri
        THEN [would_pass |-> FALSE, reason |-> SimReasonHardLimit,
              compliance_grade |-> "F",
              details |-> [risk_evaluation |-> "BLOCKED",
                           fairness_evaluation |-> None]]
        ELSE IF disparity_score > policy.max_allowed_disparity
        THEN [would_pass |-> override, reason |-> SimReasonDisparity,
              compliance_grade |-> IF override THEN "D" ELSE "F",
              details |-> [risk_evaluation |-> None,
                           fairness_evaluation |-> "AT_RISK"]]
        ELSE IF risk_score > policy.approval_required_above_mri
        THEN [would_pass |-> override, reason |-> SimReasonApproval,
              compliance_grade |-> IF override THEN "C" ELSE "B",
              details |-> [risk_evaluation |-> "APPROVAL_REQUIRED",
                           fairness_evaluation |-> None]]
        ELSE [would_pass |-> TRUE, reason |-> ReasonPassed,
              compliance_grade |-> "A",
              details |-> [risk_evaluation |-> "APPROVED",
                           fairness_evaluation |-> "APPROVED"]]

(* POST /simulation/governance-check: 400 without an active policy, else   *)
(* the result of simulate_governance_check; nothing is written             *)
check_governance_simulation(r, risk_score, fairness_score, override) ==
    /\ CanStart(r)
    /\ \E policy \in PolicyQuery :
          req' = [req EXCEPT ![r] =
                    [IdleRequest EXCEPT
                        !.pc = "done",
                        !.kind = "governance_check",
                        !.override = override,
                        !.prev_status = status,
                        !.policy = policy,
                        !.metrics = <<risk_score, fairness_score>>,
                        !.result =
                            IF policy = NoPolicy THEN NoPolicyResult(None)
                            ELSE simulate_governance_check(risk_score,
                                    fairness_score, override, policy),
                        !.outcome =
                            IF policy = NoPolicy THEN "400_no_policy"
                            ELSE "200_ok"]]
    /\ started' = started + 1
    /\ UNCHANGED <<prediction_logs, drift_metrics>>
    /\ UNCHANGED <<status, deployment_status, policies, risk_history,
                   fairness_metrics, audit_log>>

-----------------------------------------------------------------------------
(* The metric services with their rows in full: services/fairness_service, *)
(* services/risk_service, and the background tasks of api/fairness.py and  *)
(* api/drift.py.  A task is a process of its own; its steps are the reads  *)
(* of a service and its commit.                                            *)

Min(a, b) == IF a <= b THEN a ELSE b
Max(a, b) == IF a >= b THEN a ELSE b

(* The timestamps of the rows stored and of the rows about to be stored *)
TimestampsTaken ==
    {risk_history[i].timestamp : i \in DOMAIN risk_history}
    \cup {fairness_metrics[i].timestamp : i \in DOMAIN fairness_metrics}
    \cup {req[r].risk_entry.timestamp :
            r \in {q \in Reqs : req[q].pc = "risk_commit"}}

(* datetime.utcnow(): the clock is later than each of these timestamps *)
datetime_utcnow ==
    IF TimestampsTaken = {} THEN 1
    ELSE 1 + CHOOSE t \in TimestampsTaken : \A u \in TimestampsTaken : u <= t

(* group_stats of calculate_fairness_for_model: the groups in the order of *)
(* their first log, with the logs and the positive predictions of each     *)
RECURSIVE GroupNames(_)
GroupNames(logs) ==
    IF logs = <<>> THEN <<>>
    ELSE LET before == GroupNames(SubSeq(logs, 1, Len(logs) - 1))
             group == logs[Len(logs)].group
         IN  IF \E i \in DOMAIN before : before[i] = group
             THEN before ELSE Append(before, group)

GroupStats(logs) ==
    [i \in DOMAIN GroupNames(logs) |->
        LET of_group == {j \in DOMAIN logs : logs[j].group = GroupNames(logs)[i]}
        IN  [group_name |-> GroupNames(logs)[i],
             total |-> Cardinality(of_group),
             positive |-> Cardinality({j \in of_group : logs[j].prediction > 50})]]

(* positive / total, in hundredths *)
ApprovalRate(stats) == (stats.positive * 100) \div stats.total

(* max(approval_rates) - min(approval_rates), 0.0 without a group *)
Disparity(group_stats) ==
    IF group_stats = <<>> THEN 0
    ELSE LET rates == {ApprovalRate(group_stats[i]) : i \in DOMAIN group_stats}
         IN  (CHOOSE hi \in rates : \A x \in rates : x <= hi)
             - (CHOOSE lo \in rates : \A x \in rates : lo <= x)

DefaultFairnessThreshold == 25

(* _get_fairness_threshold *)
FairnessThreshold(policy) ==
    IF policy = NoPolicy THEN DefaultFairnessThreshold
    ELSE policy.max_allowed_disparity

(* FairnessRows with the disparity of a group measured from the best rate *)
(* to the rate of the group                                                *)
FairnessRowsPerGroup(group_stats, threshold, timestamp) ==
    [i \in DOMAIN group_stats |->
        LET rates == {ApprovalRate(group_stats[j]) : j \in DOMAIN group_stats}
            own == (CHOOSE hi \in rates : \A x \in rates : x <= hi)
                   - ApprovalRate(group_stats[i])
        IN  [group_name |-> group_stats[i].group_name,
             total_predictions |-> group_stats[i].total,
             positive_predictions |-> group_stats[i].positive,
             approval_rate |-> ApprovalRate(group_stats[i]),
             disparity_score |-> own,
             fairness_flag |-> own > threshold,
             timestamp |-> timestamp]]

(* The FairnessMetric rows of one run of calculate_fairness_for_model *)
FairnessRows(group_stats, threshold, timestamp) ==
    [i \in DOMAIN group_stats |->
        [group_name |-> group_stats[i].group_name,
         total_predictions |-> group_stats[i].total,
         positive_predictions |-> group_stats[i].positive,
         approval_rate |-> ApprovalRate(group_stats[i]),
         disparity_score |-> Disparity(group_stats),
         fairness_flag |-> Disparity(group_stats) > threshold,
         timestamp |-> timestamp]]

(* calculate_fairness_component: the latest disparity as a score of 0..100 *)
calculate_fairness_component(rows) ==
    IF rows = <<>> THEN 0
    ELSE Min(10000, LatestDisparityScore(rows) * 100)

(* calculate_mri_score on the two components: the weighted sum is in       *)
(* thousandths of a point; round(.., 2) never meets a tie, the sum is even *)
calculate_mri_score(drift_component, fairness_component) ==
    (Min(100000, Max(0, 6 * drift_component + 4 * fairness_component)) + 5)
        \div 10

(* The RiskHistory object that create_risk_history_entry builds *)
RiskEntry(drift_component) ==
    [risk_score |->
        calculate_mri_score(drift_component,
            calculate_fairness_component(fairness_metrics)),
     drift_component |-> drift_component,
     fairness_component |-> calculate_fairness_component(fairness_metrics),
     timestamp |-> datetime_utcnow]

(* The create_risk_history_entry calls that have not committed yet *)
EntriesInFlight ==
    Cardinality({r \in Reqs : req[r].pc \in {"risk_entry", "risk_commit"}})

CanStartTask(r) ==
    /\ req[r].pc \in {"idle", "done"}
    /\ datetime_utcnow <= MaxTicks
    /\ Len(risk_history) + EntriesInFlight < MaxRiskRows

(* POST /models/drift/{id}/recalculate, _background_drift_calculation that *)
(* found drift metrics: create_risk_history_entry up to its commit         *)
recalculate_drift(r, drift_component) ==
    /\ CanStartTask(r)
    /\ req' = [req EXCEPT ![r] =
                [IdleRequest EXCEPT !.pc = "risk_commit", !.kind = "drift",
                                    !.risk_entry = RiskEntry(drift_component)]]
    /\ UNCHANGED <<prediction_logs, drift_metrics>>
    /\ UNCHANGED <<status, deployment_status, policies, risk_history,
                   fairness_metrics, audit_log, started>>

(* POST /models/fairness/{id}/evaluate, _background_fairness_calculation:  *)
(* calculate_fairness_for_model with its commit                            *)
evaluate_fairness(r, logs) ==
    /\ CanStartTask(r)
    /\ Len(fairness_metrics) + Len(GroupStats(logs)) <= MaxFairnessRows
    /\ \E policy \in PolicyQuery :
          fairness_metrics' = fairness_metrics \o
              FairnessRows(GroupStats(logs), FairnessThreshold(policy),
                           datetime_utcnow)
    /\ req' = [req EXCEPT ![r] =
                [IdleRequest EXCEPT !.pc = "risk_entry", !.kind = "fairness",
                                    !.metrics = logs]]
    /\ UNCHANGED <<prediction_logs, drift_metrics>>
    /\ UNCHANGED <<status, deployment_status, policies, risk_history,
                   audit_log, started>>

(* _background_fairness_calculation: create_risk_history_entry up to its   *)
(* commit                                                                  *)
fairness_risk_entry(r, drift_component) ==
    /\ req[r].pc = "risk_entry"
    /\ req' = [req EXCEPT ![r].pc = "risk_commit",
                          ![r].risk_entry = RiskEntry(drift_component)]
    /\ UNCHANGED <<prediction_logs, drift_metrics>>
    /\ UNCHANGED <<status, deployment_status, policies, risk_history,
                   fairness_metrics, audit_log, started>>

(* The commit of create_risk_history_entry writing over the latest row *)
risk_entry_commit_upsert(r) ==
    /\ req[r].pc = "risk_commit"
    /\ risk_history' =
            IF risk_history = <<>> THEN <<req[r].risk_entry>>
            ELSE [risk_history EXCEPT ![Len(risk_history)] = req[r].risk_entry]
    /\ req' = [req EXCEPT ![r] = [IdleRequest EXCEPT !.pc = "done",
                                        !.kind = req[r].kind,
                                        !.outcome = "task_done"]]
    /\ UNCHANGED <<prediction_logs, drift_metrics>>
    /\ UNCHANGED <<status, deployment_status, policies, fairness_metrics,
                   audit_log, started>>

(* db.add(risk_entry); db.commit() of create_risk_history_entry *)
risk_entry_commit(r) ==
    /\ req[r].pc = "risk_commit"
    /\ risk_history' = Append(risk_history, req[r].risk_entry)
    /\ req' = [req EXCEPT ![r] = [IdleRequest EXCEPT !.pc = "done",
                                        !.kind = req[r].kind,
                                        !.outcome = "task_done"]]
    /\ UNCHANGED <<prediction_logs, drift_metrics>>
    /\ UNCHANGED <<status, deployment_status, policies, fairness_metrics,
                   audit_log, started>>

-----------------------------------------------------------------------------
(* The demo simulation: api/model_registry.py run_model_simulation and     *)
(* services/model_simulation_service.py run_simulation                     *)

lower(s) ==
    CASE s = "BLOCKED" -> "blocked"
      [] s = "AT_RISK" -> "at_risk"
      [] s = "ATTENTION_NEEDED" -> "attention_needed"
      [] s = "HEALTHY" -> "healthy"
      [] OTHER -> s

ForcedDisparity == 32
ForcedDriftComponent == 8500
ForcedFairnessComponent == 8000
ForcedRiskScore == 8700
ForcedThreshold == 7500

(* The stages of create_staged_risk_history: days_ago as ticks, the stored *)
(* risk score (0 stands for final_risk_score) and the two multipliers in   *)
(* hundredths                                                              *)
Stages ==
    << [ticks_ago |-> 3, risk_score |-> 4500, drift_multiplier |-> 50,
        fairness_multiplier |-> 60],
       [ticks_ago |-> 2, risk_score |-> 6000, drift_multiplier |-> 70,
        fairness_multiplier |-> 75],
       [ticks_ago |-> 1, risk_score |-> 7200, drift_multiplier |-> 85,
        fairness_multiplier |-> 88],
       [ticks_ago |-> 0, risk_score |-> 0, drift_multiplier |-> 100,
        fairness_multiplier |-> 100] >>

create_staged_risk_history(final_risk_score, final_drift_component, final_fairness_component) ==
    [i \in DOMAIN Stages |->
        [risk_score |-> IF Stages[i].ticks_ago = 0 THEN final_risk_score
                        ELSE Stages[i].risk_score,
         drift_component |->
            (final_drift_component * Stages[i].drift_multiplier) \div 100,
         fairness_component |->
            (final_fairness_component * Stages[i].fairness_multiplier) \div 100,
         timestamp |-> datetime_utcnow - Stages[i].ticks_ago]]

(* The forced rows that step 7 creates when the model has no fairness row *)
ForcedFairnessRows ==
    << [group_name |-> "Male", total_predictions |-> 100,
        positive_predictions |-> 70, approval_rate |-> 70,
        disparity_score |-> ForcedDisparity, fairness_flag |-> TRUE,
        timestamp |-> datetime_utcnow],
       [group_name |-> "Female", total_predictions |-> 100,
        positive_predictions |-> 45, approval_rate |-> 45,
        disparity_score |-> ForcedDisparity, fairness_flag |-> TRUE,
        timestamp |-> datetime_utcnow] >>

(* Step 7 after calculate_fairness_for_model: every fairness row of the    *)
(* model is set to the forced disparity and flagged                        *)
ForceFairness(rows) ==
    IF rows = <<>> THEN ForcedFairnessRows
    ELSE [i \in DOMAIN rows |->
            [rows[i] EXCEPT !.disparity_score = ForcedDisparity,
                            !.fairness_flag = TRUE]]

(* Step 8: the components, forced when they are below 75 *)
ForcedComponent(component, forced) ==
    IF component < ForcedThreshold THEN forced ELSE component

(* Step 8: the final risk score, forced when it is below 80 *)
FinalRiskScore(drift_component, fairness_component) ==
    LET final_risk_score == (6 * drift_component + 4 * fairness_component) \div 10
    IN  IF final_risk_score < 8000 THEN ForcedRiskScore ELSE final_risk_score

(* Step 10: the status written to the model *)
SimulationStatus(final_risk_score) ==
    IF final_risk_score >= 8000 THEN "BLOCKED"
    ELSE IF final_risk_score >= 7000 THEN "AT_RISK"
    ELSE IF final_risk_score >= 5000 THEN "ATTENTION_NEEDED"
    ELSE "HEALTHY"

(* POST /models/{id}/run-simulation, steps 1 to 7: refused for a deployed, *)
(* blocked or archived model and for a model that has prediction logs (a   *)
(* model with fairness rows has them); the logs are inserted and           *)
(* calculate_fairness_for_model commits the rows of the generated logs     *)
run_model_simulation(r, logs) ==
    /\ req[r].pc \in {"idle", "done"}
    /\ datetime_utcnow <= MaxTicks
    /\ lower(status) \notin {"deployed", "blocked", "archived"}
    /\ fairness_metrics = <<>>
    /\ \E policy \in PolicyQuery :
          fairness_metrics' =
              FairnessRows(GroupStats(logs), FairnessThreshold(policy),
                           datetime_utcnow)
    /\ req' = [req EXCEPT ![r] =
                [IdleRequest EXCEPT !.pc = "sim_force", !.kind = "simulation"]]
    /\ UNCHANGED <<prediction_logs, drift_metrics>>
    /\ UNCHANGED <<status, deployment_status, policies, risk_history,
                   audit_log, started>>

(* Steps 7 to 9: the fairness rows are forced, the components are read and *)
(* forced, the staged history is inserted; one commit                      *)
simulation_stage_history(r, drift_component) ==
    /\ req[r].pc = "sim_force"
    /\ fairness_metrics' = ForceFairness(fairness_metrics)
    /\ LET forced_drift == ForcedComponent(drift_component, ForcedDriftComponent)
           forced_fairness ==
                ForcedComponent(
                    calculate_fairness_component(ForceFairness(fairness_metrics)),
                    ForcedFairnessComponent)
           staged == create_staged_risk_history(
                        FinalRiskScore(forced_drift, forced_fairness),
                        forced_drift, forced_fairness)
       IN  /\ risk_history' = risk_history \o staged
           /\ req' = [req EXCEPT ![r].pc = "sim_status",
                                 ![r].risk_entry = staged[Len(staged)]]
    /\ UNCHANGED <<prediction_logs, drift_metrics>>
    /\ UNCHANGED <<status, deployment_status, policies, audit_log, started>>

(* Step 10: the status of the model, and its commit *)
simulation_update_status(r) ==
    /\ req[r].pc = "sim_status"
    /\ status' = SimulationStatus(req[r].risk_entry.risk_score)
    /\ req' = [req EXCEPT ![r] = [IdleRequest EXCEPT !.pc = "done",
                                        !.kind = req[r].kind,
                                        !.outcome = "200_ok"]]
    /\ UNCHANGED <<prediction_logs, drift_metrics>>
    /\ UNCHANGED <<deployment_status, policies, risk_history, fairness_metrics,
                   audit_log, started>>

-----------------------------------------------------------------------------
(* The metric services on the stored tables: services/drift_service.py,    *)
(* services/fairness_service.py and services/risk_service.py reading       *)
(* prediction_logs, drift_metrics and fairness_metrics.  The table         *)
(* prediction_logs is kept run-length encoded: an element stands for count *)
(* consecutive logs, in the order of their timestamps, that carry the same *)
(* input_features and the same prediction.  A prediction is in hundredths  *)
(* (90 stands for 0.9); a PSI and a KS statistic are in ten-thousandths    *)
(* (2500 stands for 0.25).                                                 *)

(* A value of input_features that float() rejects *)
NotNumeric == -1

(* limit(100) of get_baseline_data *)
BaselineLimit == 100

(* settings.DRIFT_WINDOW_SIZE, settings.PSI_THRESHOLD, settings.KS_THRESHOLD *)
DRIFT_WINDOW_SIZE == 100
PSI_THRESHOLD == 2500
KS_THRESHOLD == 2000

(* if len(baseline) < 10 or len(recent) < 10: continue *)
MinSampleSize == 10

(* The number of logs a run-length encoded table stands for *)
RECURSIVE LogCount(_)
LogCount(logs) ==
    IF logs = <<>> THEN 0 ELSE Head(logs).count + LogCount(Tail(logs))

(* order_by(timestamp.asc()).limit(n) *)
RECURSIVE Earliest(_, _)
Earliest(logs, n) ==
    IF logs = <<>> \/ n = 0 THEN <<>>
    ELSE IF Head(logs).count >= n THEN <<[Head(logs) EXCEPT !.count = n]>>
    ELSE <<Head(logs)>> \o Earliest(Tail(logs), n - Head(logs).count)

(* order_by(timestamp.desc()).limit(n), written oldest first *)
RECURSIVE Latest(_, _)
Latest(logs, n) ==
    IF logs = <<>> \/ n = 0 THEN <<>>
    ELSE LET last == logs[Len(logs)]
             before == SubSeq(logs, 1, Len(logs) - 1)
         IN  IF last.count >= n THEN <<[last EXCEPT !.count = n]>>
             ELSE Append(Latest(before, n - last.count), last)

(* What a log holds under feature_name: input_features[feature_name], or   *)
(* log.prediction for the feature "prediction"                             *)
FeatureValue(log, feature_name) ==
    CASE feature_name = "transaction_amount" -> log.transaction_amount
      [] feature_name = "prediction" -> log.prediction
      [] OTHER -> NotNumeric

(* The values of a feature that float() accepts, each with the number of   *)
(* logs that carry it: the loop of get_baseline_data and get_recent_data   *)
FeatureSample(logs, feature_name) ==
    LET numeric == SelectSeq(logs,
                        LAMBDA log : FeatureValue(log, feature_name) # NotNumeric)
    IN  [i \in DOMAIN numeric |->
            [value |-> FeatureValue(numeric[i], feature_name),
             count |-> numeric[i].count]]

get_baseline_data(logs, feature_name) ==
    FeatureSample(Earliest(logs, BaselineLimit), feature_name)

(* get_recent_data that reads half of the window *)
get_recent_data_half_window(logs, feature_name, window_size) ==
    FeatureSample(Latest(logs, window_size \div 2), feature_name)

get_recent_data(logs, feature_name, window_size) ==
    FeatureSample(Latest(logs, window_size), feature_name)

(* len(sample) *)
len(sample) == LogCount(sample)

(* The number of values of a sample that are at most v *)
CountUpTo(sample, v) ==
    LogCount(SelectSeq(sample, LAMBDA x : x.value <= v))

SampleValues(sample) == {sample[i].value : i \in DOMAIN sample}

(* Two samples that hold the same values the same number of times *)
SameSample(expected, actual) ==
    /\ SampleValues(expected) = SampleValues(actual)
    /\ \A v \in SampleValues(expected) :
            CountUpTo(expected, v) = CountUpTo(actual, v)

Abs(x) == IF x < 0 THEN 0 - x ELSE x

(* calculate_ks_statistic: ks_2samp, the largest distance between the two  *)
(* empirical distribution functions, 0.0 on an empty sample                *)
calculate_ks_statistic(expected, actual) ==
    IF len(expected) = 0 \/ len(actual) = 0 THEN 0
    ELSE LET points == SampleValues(expected) \cup SampleValues(actual)
             distance(v) == Abs(CountUpTo(expected, v) * len(actual)
                                - CountUpTo(actual, v) * len(expected))
             top == CHOOSE v \in points : \A w \in points :
                        distance(w) <= distance(v)
         IN  (distance(top) * 10000) \div (len(expected) * len(actual))

(* The PSI of two samples that differ: the logarithms are not computed,    *)
(* the index is one of these values                                        *)
PsiValues == {0, 1000, 3000}

(* calculate_psi: 0.0 on an empty sample; the two histograms of one sample *)
(* against itself are equal and every term of the sum is 0                 *)
calculate_psi(expected, actual) ==
    IF len(expected) = 0 \/ len(actual) = 0 THEN {0}
    ELSE IF SameSample(expected, actual) THEN {0}
    ELSE PsiValues

(* The models of the registry: the calls are made for model 1, which is    *)
(* registered, or for model 2, which is not                                *)
RegisteredModels == {1}
ModelIds == {1, 2}

(* features_to_monitor: the keys of input_features of a log, and           *)
(* "prediction"                                                            *)
features_to_monitor(logs) ==
    IF logs = <<>> THEN <<"prediction">>
    ELSE <<"transaction_amount", "gender", "prediction">>

(* calculate_drift_for_model with the sample size test skipped *)
RECURSIVE DriftRowsOfEveryFeature(_, _, _, _)
DriftRowsOfEveryFeature(logs, features, psi, timestamp) ==
    IF features = <<>> THEN <<>>
    ELSE LET feature_name == Head(features)
             baseline == get_baseline_data(logs, feature_name)
             recent == get_recent_data(logs, feature_name, DRIFT_WINDOW_SIZE)
             ks_statistic == calculate_ks_statistic(baseline, recent)
         IN  <<[feature_name |-> feature_name,
                psi_value |-> psi[feature_name],
                ks_statistic |-> ks_statistic,
                drift_flag |-> \/ psi[feature_name] >= PSI_THRESHOLD
                               \/ ks_statistic >= KS_THRESHOLD,
                timestamp |-> timestamp]>>
             \o DriftRowsOfEveryFeature(logs, Tail(features), psi, timestamp)

(* The loop of calculate_drift_for_model over the features: the            *)
(* DriftMetric rows of one run, psi being the PSI of each feature          *)
RECURSIVE DriftRows(_, _, _, _)
DriftRows(logs, features, psi, timestamp) ==
    IF features = <<>> THEN <<>>
    ELSE LET feature_name == Head(features)
             baseline == get_baseline_data(logs, feature_name)
             recent == get_recent_data(logs, feature_name, DRIFT_WINDOW_SIZE)
             ks_statistic == calculate_ks_statistic(baseline, recent)
             rest == DriftRows(logs, Tail(features), psi, timestamp)
         IN  IF len(baseline) < MinSampleSize \/ len(recent) < MinSampleSize
             THEN rest
             ELSE <<[feature_name |-> feature_name,
                     psi_value |-> psi[feature_name],
                     ks_statistic |-> ks_statistic,
                     drift_flag |-> \/ psi[feature_name] >= PSI_THRESHOLD
                                    \/ ks_statistic >= KS_THRESHOLD,
                     timestamp |-> timestamp]>> \o rest

FeatureNames == {"transaction_amount", "gender", "prediction"}

(* The PSI that calculate_psi can return for each feature of a table *)
PsiOfFeatures(logs) ==
    {psi \in [FeatureNames -> PsiValues] :
        \A feature_name \in FeatureNames :
            psi[feature_name] \in
                calculate_psi(get_baseline_data(logs, feature_name),
                    get_recent_data(logs, feature_name, DRIFT_WINDOW_SIZE))}

(* calculate_drift_for_model: the lists of rows it can create and return,  *)
(* the empty list for a model that is not registered                       *)
calculate_drift_for_model(model_id, logs, timestamp) ==
    IF model_id \notin RegisteredModels THEN {<<>>}
    ELSE {DriftRows(logs, features_to_monitor(logs), psi, timestamp) :
            psi \in PsiOfFeatures(logs)}

(* group_stats of calculate_fairness_for_model on the stored logs, for the *)
(* protected attribute gender                                              *)
group_stats(logs) ==
    LET names == GroupNames([i \in DOMAIN logs |-> [group |-> logs[i].gender]])
    IN  [i \in DOMAIN names |->
            [group_name |-> names[i],
             total |-> LogCount(SelectSeq(logs,
                            LAMBDA log : log.gender = names[i])),
             positive |-> LogCount(SelectSeq(logs,
                            LAMBDA log : log.gender = names[i]
                                         /\ log.prediction > 50))]]

(* The dictionary calculate_fairness_for_model returns *)
FairnessResult(rows) ==
    [disparity_score |-> IF rows = <<>> THEN 0 ELSE rows[1].disparity_score,
     fairness_flag |-> IF rows = <<>> THEN FALSE ELSE rows[1].fairness_flag,
     groups |-> rows]

(* limit(50) of calculate_drift_component *)
DriftMetricLimit == 50

RECURSIVE SumOf(_, _)
SumOf(rows, column) ==
    IF rows = <<>> THEN 0 ELSE Head(rows)[column] + SumOf(Tail(rows), column)

(* calculate_drift_component that takes a model without drift metrics for  *)
(* a model that has drifted                                                *)
calculate_drift_component_unknown_is_drift(rows) ==
    IF rows = <<>> THEN 10000
    ELSE Min(10000, (3 * SumOf(rows, "psi_value")
                     + 2 * SumOf(rows, "ks_statistic")) \div (8 * Len(rows)))

(* calculate_drift_component: (avg_psi * 60 + avg_ks * 40) / 1.6 over the  *)
(* latest 50 rows, at most 100, rounded to hundredths of a point           *)
calculate_drift_component(rows) ==
    IF rows = <<>> THEN 0
    ELSE LET recent == SubSeq(rows, Max(1, Len(rows) - DriftMetricLimit + 1),
                              Len(rows))
             sum == 3 * SumOf(recent, "psi_value")
                    + 2 * SumOf(recent, "ks_statistic")
             rounded == (2 * sum + 8 * Len(recent)) \div (16 * Len(recent))
         IN  Min(10000, rounded)

(* A stored prediction log: one log of these input_features and prediction *)
LogBatch(count, transaction_amount, gender, prediction) ==
    [count |-> count, transaction_amount |-> transaction_amount,
     gender |-> gender, prediction |-> prediction]

(* db.add(prediction_log): the log joins the logs before it that are equal *)
(* to it                                                                   *)
AddLog(logs, log) ==
    IF logs # <<>> /\ [logs[Len(logs)] EXCEPT !.count = 1] = log
    THEN [logs EXCEPT ![Len(logs)].count = @ + 1]
    ELSE Append(logs, log)

(* A background task or a log_prediction call can start *)
CanStartCalculation(r) ==
    /\ req[r].pc \in {"idle", "done"}
    /\ datetime_utcnow <= MaxTicks

(* The drift_metrics table has room for the rows of one more run *)
CanStoreDriftRows == Len(drift_metrics) < MaxDriftRows

(* POST /logs/prediction up to the commit of the log *)
log_prediction(r, log) ==
    /\ CanStartCalculation(r)
    /\ started < MaxRequests
    /\ started' = started + 1
    /\ prediction_logs' = AddLog(prediction_logs, log)
    /\ req' = [req EXCEPT ![r] =
                [IdleRequest EXCEPT !.pc = "log_drift", !.kind = "log"]]
    /\ UNCHANGED <<status, deployment_status, policies, risk_history,
                   fairness_metrics, audit_log, drift_metrics>>

(* log_prediction: calculate_drift_for_model with its commit, or the       *)
(* exception that the handler prints and drops                             *)
log_prediction_drift(r, calculation_ok) ==
    /\ req[r].pc = "log_drift"
    /\ calculation_ok => CanStoreDriftRows
    /\ IF calculation_ok
       THEN \E rows \in calculate_drift_for_model(1, prediction_logs,
                                                   datetime_utcnow) :
                /\ drift_metrics' = drift_metrics \o rows
                /\ req' = [req EXCEPT ![r].pc = "risk_mri",
                                      ![r].metrics = [model_id |-> 1,
                                                      drift_metrics |-> rows]]
       ELSE /\ drift_metrics' = drift_metrics
            /\ req' = [req EXCEPT ![r].pc = "done",
                                  ![r].outcome = "201_created"]
    /\ UNCHANGED <<status, deployment_status, policies, risk_history,
                   fairness_metrics, audit_log, started, prediction_logs>>

(* _background_drift_calculation: calculate_drift_for_model with its       *)
(* commit; create_risk_history_entry follows if the list is not empty      *)
background_drift_calculation(r, model_id) ==
    /\ CanStartCalculation(r)
    /\ CanStoreDriftRows
    /\ \E rows \in calculate_drift_for_model(model_id, prediction_logs,
                                              datetime_utcnow) :
          /\ drift_metrics' = drift_metrics \o rows
          /\ req' = [req EXCEPT ![r] =
                [IdleRequest EXCEPT
                    !.pc = IF rows # <<>> THEN "risk_mri" ELSE "done",
                    !.kind = "drift",
                    !.metrics = [model_id |-> model_id,
                                 drift_metrics |-> rows],
                    !.outcome = IF rows # <<>> THEN None ELSE "task_done"]]
    /\ UNCHANGED <<status, deployment_status, policies, risk_history,
                   fairness_metrics, audit_log, started, prediction_logs>>

(* _background_fairness_calculation: calculate_fairness_for_model on the   *)
(* stored logs with its commit; create_risk_history_entry follows          *)
background_fairness_calculation(r) ==
    /\ CanStartCalculation(r)
    /\ \E policy \in PolicyQuery :
          LET rows == FairnessRows(group_stats(prediction_logs),
                            FairnessThreshold(policy), datetime_utcnow)
          IN  /\ fairness_metrics' = fairness_metrics \o rows
              /\ req' = [req EXCEPT ![r] =
                    [IdleRequest EXCEPT !.pc = "risk_mri",
                                        !.kind = "fairness",
                                        !.metrics = FairnessResult(rows)]]
    /\ UNCHANGED <<status, deployment_status, policies, risk_history,
                   audit_log, started, prediction_logs, drift_metrics>>

(* create_risk_history_entry, risk_score = calculate_mri_score(db, id):    *)
(* the queries of calculate_drift_component and of                         *)
(* calculate_fairness_component                                            *)
risk_entry_mri_score(r) ==
    /\ req[r].pc = "risk_mri"
    /\ req' = [req EXCEPT
            ![r].pc = "risk_drift",
            ![r].risk_entry =
                [risk_score |->
                    calculate_mri_score(
                        calculate_drift_component(drift_metrics),
                        calculate_fairness_component(fairness_metrics)),
                 drift_component |-> 0,
                 fairness_component |-> 0,
                 timestamp |-> 0]]
    /\ UNCHANGED <<status, deployment_status, policies, risk_history,
                   fairness_metrics, audit_log, started, prediction_logs,
                   drift_metrics>>

(* create_risk_history_entry, drift_component =                            *)
(* calculate_drift_component(db, id): the query is run again               *)
risk_entry_drift_component(r) ==
    /\ req[r].pc = "risk_drift"
    /\ req' = [req EXCEPT
            ![r].pc = "risk_fairness",
            ![r].risk_entry.drift_component =
                calculate_drift_component(drift_metrics)]
    /\ UNCHANGED <<status, deployment_status, policies, risk_history,
                   fairness_metrics, audit_log, started, prediction_logs,
                   drift_metrics>>

(* create_risk_history_entry, fairness_component =                         *)
(* calculate_fairness_component(db, id), run again, and the RiskHistory    *)
(* object with timestamp=datetime.utcnow()                                 *)
risk_entry_fairness_component(r) ==
    /\ req[r].pc = "risk_fairness"
    /\ req' = [req EXCEPT
            ![r].pc = "risk_commit",
            ![r].risk_entry.fairness_component =
                calculate_fairness_component(fairness_metrics),
            ![r].risk_entry.timestamp = datetime_utcnow]
    /\ UNCHANGED <<status, deployment_status, policies, risk_history,
                   fairness_metrics, audit_log, started, prediction_logs,
                   drift_metrics>>

(* run_simulation step by step: the steps of                               *)
(* services/model_simulation_service.py run_simulation between its         *)
(* commits, each with the failure of its commit                            *)

(* Steps 3 and 4: generate_baseline_data(300) and                          *)
(* generate_shifted_data(200); the samples of a gender are taken alike     *)
SimulationSamples ==
    << LogBatch(150, 200, "Male", 30), LogBatch(150, 200, "Female", 30),
       LogBatch(100, 900, "Male", 30), LogBatch(100, 900, "Female", 80) >>

(* insert_prediction_logs: the timestamps start 30 days before the call    *)
(* and are one hour apart, so the logs of a second run fall between the    *)
(* logs of the first                                                       *)
InsertedLogs(logs, samples) ==
    IF logs = <<>> THEN samples
    ELSE [i \in DOMAIN logs |->
            [logs[i] EXCEPT !.count = @ + samples[i].count]]

(* The call ends with HTTP 500 (RuntimeError) *)
SimulationFailed(request) ==
    [IdleRequest EXCEPT !.pc = "done", !.kind = request.kind,
                        !.outcome = "500_error"]

(* run_model_simulation and steps 1 and 2 of run_simulation: 409 for a     *)
(* deployed, blocked or archived model, 400 for a model that has           *)
(* prediction logs                                                         *)
run_simulation_check(r) ==
    /\ CanStartCalculation(r)
    /\ req' = [req EXCEPT ![r] =
            [IdleRequest EXCEPT
                !.kind = "run_simulation",
                !.pc = IF \/ lower(status) \in {"deployed", "blocked", "archived"}
                          \/ prediction_logs # <<>>
                       THEN "done" ELSE "sim_insert",
                !.outcome =
                    IF lower(status) \in {"deployed", "blocked", "archived"}
                    THEN "409_conflict"
                    ELSE IF prediction_logs # <<>> THEN "400_already_simulated"
                    ELSE None]]
    /\ UNCHANGED <<status, deployment_status, policies, risk_history,
                   fairness_metrics, audit_log, started, prediction_logs,
                   drift_metrics>>

(* Step 5, insert_prediction_logs: the 500 logs and their commit, or the   *)
(* rollback and the RuntimeError                                           *)
insert_prediction_logs(r, write_ok) ==
    /\ req[r].pc = "sim_insert"
    /\ IF write_ok
       THEN /\ prediction_logs' = InsertedLogs(prediction_logs, SimulationSamples)
            /\ req' = [req EXCEPT ![r].pc = "sim_drift"]
       ELSE /\ prediction_logs' = prediction_logs
            /\ req' = [req EXCEPT ![r] = SimulationFailed(req[r])]
    /\ UNCHANGED <<status, deployment_status, policies, risk_history,
                   fairness_metrics, audit_log, started, drift_metrics>>

(* Step 6: calculate_drift_for_model with its commit; the forced values    *)
(* are set on the rows of the session and wait for the next commit         *)
run_simulation_drift(r, write_ok) ==
    /\ req[r].pc = "sim_drift"
    /\ IF write_ok
       THEN \E rows \in calculate_drift_for_model(1, prediction_logs,
                                                   datetime_utcnow) :
                /\ rows # <<>>
                /\ drift_metrics' = drift_metrics \o rows
                /\ req' = [req EXCEPT
                        ![r].pc = "sim_fairness",
                        ![r].metrics = [first |-> Len(drift_metrics) + 1,
                                        count |-> Len(rows)]]
       ELSE /\ drift_metrics' = drift_metrics
            /\ req' = [req EXCEPT ![r] = SimulationFailed(req[r])]
    /\ UNCHANGED <<status, deployment_status, policies, risk_history,
                   fairness_metrics, audit_log, started, prediction_logs>>

(* metric.psi_value = 0.42 + idx * 0.05, metric.ks_statistic = 0.35 + idx  *)
(* * 0.03 on the rows that the run created                                 *)
ForceDrift(rows, first, count) ==
    [i \in DOMAIN rows |->
        IF i >= first /\ i < first + count
        THEN [rows[i] EXCEPT !.psi_value = 4200 + 500 * (i - first),
                             !.ks_statistic = 3500 + 300 * (i - first)]
        ELSE rows[i]]

(* Step 7: calculate_fairness_for_model with its commit, which writes the  *)
(* forced drift values as well; the fairness rows are then forced in the   *)
(* session                                                                 *)
run_simulation_fairness(r, write_ok) ==
    /\ req[r].pc = "sim_fairness"
    /\ IF write_ok
       THEN \E policy \in PolicyQuery :
                /\ fairness_metrics' = fairness_metrics \o
                        FairnessRows(group_stats(prediction_logs),
                            FairnessThreshold(policy), datetime_utcnow)
                /\ drift_metrics' = ForceDrift(drift_metrics,
                        req[r].metrics.first, req[r].metrics.count)
                /\ req' = [req EXCEPT ![r].pc = "sim_history"]
       ELSE /\ fairness_metrics' = fairness_metrics
            /\ drift_metrics' = drift_metrics
            /\ req' = [req EXCEPT ![r] = SimulationFailed(req[r])]
    /\ UNCHANGED <<status, deployment_status, policies, risk_history,
                   audit_log, started, prediction_logs>>

(* Steps 8 and 9: the components are read and forced, the staged history   *)
(* is added; the commit writes it with the forced fairness rows, a failure *)
(* rolls both back                                                         *)
run_simulation_history(r, write_ok) ==
    /\ req[r].pc = "sim_history"
    /\ IF write_ok
       THEN LET forced_drift ==
                    ForcedComponent(calculate_drift_component(drift_metrics),
                                    ForcedDriftComponent)
                forced_fairness ==
                    ForcedComponent(
                        calculate_fairness_component(
                            ForceFairness(fairness_metrics)),
                        ForcedFairnessComponent)
                staged == create_staged_risk_history(
                            FinalRiskScore(forced_drift, forced_fairness),
                            forced_drift, forced_fairness)
            IN  /\ fairness_metrics' = ForceFairness(fairness_metrics)
                /\ risk_history' = risk_history \o staged
                /\ req' = [req EXCEPT ![r].pc = "sim_status",
                                      ![r].risk_entry = staged[Len(staged)]]
       ELSE /\ fairness_metrics' = fairness_metrics
            /\ risk_history' = risk_history
            /\ req' = [req EXCEPT ![r] = SimulationFailed(req[r])]
    /\ UNCHANGED <<status, deployment_status, policies, audit_log, started,
                   prediction_logs, drift_metrics>>

(* Step 10: the status of the model and its commit, or the rollback *)
run_simulation_status(r, write_ok) ==
    /\ req[r].pc = "sim_status"
    /\ IF write_ok
       THEN /\ status' = SimulationStatus(req[r].risk_entry.risk_score)
            /\ req' = [req EXCEPT ![r] =
                    [IdleRequest EXCEPT !.pc = "done", !.kind = req[r].kind,
                                        !.outcome = "200_ok"]]
       ELSE /\ status' = status
            /\ req' = [req EXCEPT ![r] = SimulationFailed(req[r])]
    /\ UNCHANGED <<deployment_status, policies, risk_history, fairness_metrics,
                   audit_log, started, prediction_logs, drift_metrics>>

-----------------------------------------------------------------------------
(* The specifications *)

Next ==
    \/ \E p \in PolicyIds, input \in PolicyInputs, active \in BOOLEAN :
            create_policy(p, input, active)
    \/ \E p \in PolicyIds, active \in BOOLEAN : update_policy(p, active)
    \/ \E p \in PolicyIds : delete_policy(p)
    \/ \E risk_score \in RiskValues : create_risk_history_entry(risk_score)
    \/ \E disparity_score \in DisparityValues :
            calculate_fairness_for_model(disparity_score)
    \/ \E r \in SequentialReqs : evaluate_governance(r)
    \/ \E r \in SequentialReqs, override \in BOOLEAN : deploy_model(r, override)
    \/ \E r \in SequentialReqs : get_governance_explanation(r)
    \/ \E r \in SequentialReqs : evaluate_commit(r)
    \/ \E r \in SequentialReqs : explanation_fallback(r)
    \/ \E r \in SequentialReqs, write_ok \in BOOLEAN : evaluate_audit(r, write_ok)
    \/ \E r \in SequentialReqs, write_ok \in BOOLEAN : deploy_gate(r, write_ok)
    \/ \E r \in SequentialReqs, write_ok \in BOOLEAN : deploy_audit(r, write_ok)

Spec == Init /\ [][Next]_vars

(* Two governance requests in flight, one policy, risk rows only *)
NextConcurrent ==
    \/ \E p \in PolicyIds, input \in PolicyInputs : create_policy(p, input, TRUE)
    \/ \E risk_score \in ConcurrentRiskValues :
            create_risk_history_entry(risk_score)
    \/ \E r \in Reqs : evaluate_governance(r)
    \/ \E r \in Reqs, override \in BOOLEAN : deploy_model(r, override)
    \/ \E r \in Reqs : evaluate_commit(r)
    \/ \E r \in Reqs, write_ok \in BOOLEAN : evaluate_audit(r, write_ok)
    \/ \E r \in Reqs, write_ok \in BOOLEAN : deploy_gate(r, write_ok)
    \/ \E r \in Reqs, write_ok \in BOOLEAN : deploy_audit(r, write_ok)

SpecConcurrent == Init /\ [][NextConcurrent]_vars

(* One governance request in flight, with the simulation reset *)
NextReset ==
    \/ \E p \in PolicyIds, input \in PolicyInputs : create_policy(p, input, TRUE)
    \/ \E p \in PolicyIds : delete_policy(p)
    \/ \E risk_score \in ResetRiskValues : create_risk_history_entry(risk_score)
    \/ reset_simulation
    \/ \E r \in SequentialReqs : evaluate_governance(r)
    \/ \E r \in SequentialReqs, override \in BOOLEAN : deploy_model(r, override)
    \/ \E r \in SequentialReqs : evaluate_commit(r)
    \/ \E r \in SequentialReqs, write_ok \in BOOLEAN : evaluate_audit(r, write_ok)
    \/ \E r \in SequentialReqs, write_ok \in BOOLEAN : deploy_gate(r, write_ok)
    \/ \E r \in SequentialReqs, write_ok \in BOOLEAN : deploy_audit(r, write_ok)

SpecReset == Init /\ [][NextReset]_vars

(* The evaluate endpoint on a database that holds one active policy, or    *)
(* two, and at most one row in each metric table                           *)
InitRules ==
    /\ status = DefaultStatus
    /\ deployment_status = DefaultStatus
    /\ policies \in
            {[p \in PolicyIds |->
                IF p = 1 THEN PolicyRow(input, TRUE) ELSE NoRow] :
                    input \in RulesPolicyInputs}
            \cup
            {[p \in PolicyIds |->
                PolicyRow(CHOOSE input \in RulesPolicyInputs :
                    (input.name = "default") <=> (p = 1), TRUE)]}
    /\ risk_history \in
            {<<>>} \cup {<<[risk_score |-> v, timestamp |-> 1]>> :
                            v \in RulesRiskValues}
    /\ fairness_metrics \in
            {<<>>} \cup {<<[disparity_score |-> v, timestamp |-> 1]>> :
                            v \in RulesDisparityValues}
    /\ audit_log = <<>>
    /\ req = [r \in Reqs |-> IdleRequest]
    /\ started = 0
    /\ prediction_logs = <<>>
    /\ drift_metrics = <<>>

NextRules ==
    \/ \E r \in SequentialReqs : evaluate_governance(r)
    \/ \E r \in SequentialReqs : evaluate_commit(r)
    \/ \E r \in SequentialReqs, write_ok \in BOOLEAN : evaluate_audit(r, write_ok)

SpecRules == InitRules /\ [][NextRules]_vars

(* The governance simulation endpoint on the databases of SpecRules, with  *)
(* the deactivation of a policy                                            *)
NextGovernanceCheck ==
    \/ \E r \in SequentialReqs, risk_score \in RulesRiskValues,
          fairness_score \in SimFairnessValues, override \in BOOLEAN :
            check_governance_simulation(r, risk_score, fairness_score, override)
    \/ \E p \in PolicyIds : update_policy(p, FALSE)

SpecGovernanceCheck == InitRules /\ [][NextGovernanceCheck]_vars

(* Two metric tasks in flight and the evaluate endpoint, on a database     *)
(* that holds the default policy                                           *)
InitMetrics ==
    /\ status = DefaultStatus
    /\ deployment_status = DefaultStatus
    /\ policies = [p \in PolicyIds |->
            IF p = 1 THEN PolicyRow(CHOOSE input \in PolicyInputs : TRUE, TRUE)
            ELSE NoRow]
    /\ risk_history = <<>>
    /\ fairness_metrics = <<>>
    /\ audit_log = <<>>
    /\ req = [r \in Reqs |-> IdleRequest]
    /\ started = 0
    /\ prediction_logs = <<>>
    /\ drift_metrics = <<>>

NextMetrics ==
    \/ \E r \in Reqs, drift_component \in DriftComponentValues :
            recalculate_drift(r, drift_component)
    \/ \E r \in Reqs, logs \in PredictionLogInputs : evaluate_fairness(r, logs)
    \/ \E r \in Reqs, drift_component \in DriftComponentValues :
            fairness_risk_entry(r, drift_component)
    \/ \E r \in Reqs : risk_entry_commit(r)
    \/ \E r \in SequentialReqs : evaluate_governance(r)
    \/ \E r \in SequentialReqs : evaluate_commit(r)
    \/ \E r \in SequentialReqs, write_ok \in BOOLEAN : evaluate_audit(r, write_ok)

SpecMetrics == InitMetrics /\ [][NextMetrics]_vars

(* Two metric tasks in flight, the demo simulation and its reset *)
NextSimulation ==
    \/ \E r \in Reqs, drift_component \in DriftComponentValues :
            recalculate_drift(r, drift_component)
    \/ \E r \in Reqs, logs \in PredictionLogInputs : evaluate_fairness(r, logs)
    \/ \E r \in Reqs, drift_component \in DriftComponentValues :
            fairness_risk_entry(r, drift_component)
    \/ \E r \in Reqs : risk_entry_commit(r)
    \/ \E r \in Reqs, logs \in SimulationLogInputs : run_model_simulation(r, logs)
    \/ \E r \in Reqs, drift_component \in DriftComponentValues :
            simulation_stage_history(r, drift_component)
    \/ \E r \in Reqs : simulation_update_status(r)
    \/ reset_simulation

SpecSimulation == InitMetrics /\ [][NextSimulation]_vars

(* One governance request or one demo simulation in flight, with the       *)
(* policy administration and the simulation reset                          *)
NextAudit ==
    \/ \E p \in PolicyIds, input \in PolicyInputs : create_policy(p, input, TRUE)
    \/ \E p \in PolicyIds : delete_policy(p)
    \/ \E r \in SequentialReqs, logs \in SimulationLogInputs :
            run_model_simulation(r, logs)
    \/ \E r \in SequentialReqs, drift_component \in DriftComponentValues :
            simulation_stage_history(r, drift_component)
    \/ \E r \in SequentialReqs : simulation_update_status(r)
    \/ reset_simulation
    \/ \E r \in SequentialReqs : evaluate_governance(r)
    \/ \E r \in SequentialReqs, override \in BOOLEAN : deploy_model(r, override)
    \/ \E r \in SequentialReqs : evaluate_commit(r)
    \/ \E r \in SequentialReqs, write_ok \in BOOLEAN : evaluate_audit(r, write_ok)
    \/ \E r \in SequentialReqs, write_ok \in BOOLEAN : deploy_gate(r, write_ok)
    \/ \E r \in SequentialReqs, write_ok \in BOOLEAN : deploy_audit(r, write_ok)

SpecAudit == Init /\ [][NextAudit]_vars

(* The policy administration with policies of two names, and one           *)
(* evaluation in flight                                                    *)
NextPolicies ==
    \/ \E p \in PolicyIds, input \in RulesPolicyInputs, active \in BOOLEAN :
            create_policy(p, input, active)
    \/ \E p \in PolicyIds, active \in BOOLEAN : update_policy(p, active)
    \/ \E p \in PolicyIds : delete_policy(p)
    \/ \E risk_score \in RulesRiskValues : create_risk_history_entry(risk_score)
    \/ \E r \in SequentialReqs : evaluate_governance(r)
    \/ \E r \in SequentialReqs : evaluate_commit(r)
    \/ \E r \in SequentialReqs, write_ok \in BOOLEAN : evaluate_audit(r, write_ok)

SpecPolicies == Init /\ [][NextPolicies]_vars

(* The prediction logs that the calls of log_prediction send *)
LogInputs ==
    { LogBatch(1, 900, "Female", 80), LogBatch(1, NotNumeric, "Male", 30) }

(* The tables of prediction logs that the calculations start from: no log, *)
(* 9 logs, 10 logs, 100 logs, 200 logs whose later half has moved, and 17  *)
(* logs of which 5 have a numeric transaction_amount                       *)
LogTables ==
    { <<>>,
      <<LogBatch(9, 100, "Male", 30)>>,
      <<LogBatch(6, 100, "Male", 30), LogBatch(4, 900, "Female", 80)>>,
      <<LogBatch(60, 100, "Male", 30), LogBatch(40, 900, "Female", 80)>>,
      <<LogBatch(100, 100, "Male", 30), LogBatch(100, 900, "Female", 80)>>,
      <<LogBatch(12, NotNumeric, "Male", 30), LogBatch(5, 100, "Female", 80)>> }

(* The drift calculation on a stored table of prediction logs: the log     *)
(* endpoint and the background drift task, one call at a time              *)
InitDrift ==
    /\ status = DefaultStatus
    /\ deployment_status = DefaultStatus
    /\ policies = [p \in PolicyIds |-> NoRow]
    /\ risk_history = <<>>
    /\ fairness_metrics = <<>>
    /\ audit_log = <<>>
    /\ req = [r \in Reqs |-> IdleRequest]
    /\ started = 0
    /\ prediction_logs \in LogTables
    /\ drift_metrics = <<>>

NextDrift ==
    \/ \E r \in SequentialReqs, log \in LogInputs : log_prediction(r, log)
    \/ \E r \in SequentialReqs, calculation_ok \in BOOLEAN :
            log_prediction_drift(r, calculation_ok)
    \/ \E r \in SequentialReqs, model_id \in ModelIds :
            background_drift_calculation(r, model_id)
    \/ \E r \in SequentialReqs : risk_entry_mri_score(r)
    \/ \E r \in SequentialReqs : risk_entry_drift_component(r)
    \/ \E r \in SequentialReqs : risk_entry_fairness_component(r)
    \/ \E r \in SequentialReqs : risk_entry_commit(r)

SpecDrift == InitDrift /\ [][NextDrift]_vars

(* The pipeline of a model that starts without prediction logs or with 10  *)
(* logs: the log endpoint, the drift task, the fairness task, each with    *)
(* create_risk_history_entry, and the governance evaluation, one call at a *)
(* time                                                                    *)
InitPipeline ==
    /\ InitDrift
    /\ LogCount(prediction_logs) \in {0, 10}

NextPipeline ==
    \/ \E p \in PolicyIds, input \in RulesPolicyInputs :
            create_policy(p, input, TRUE)
    \/ \E r \in SequentialReqs, log \in LogInputs : log_prediction(r, log)
    \/ \E r \in SequentialReqs, calculation_ok \in BOOLEAN :
            log_prediction_drift(r, calculation_ok)
    \/ \E r \in SequentialReqs : background_drift_calculation(r, 1)
    \/ \E r \in SequentialReqs : background_fairness_calculation(r)
    \/ \E r \in SequentialReqs : risk_entry_mri_score(r)
    \/ \E r \in SequentialReqs : risk_entry_drift_component(r)
    \/ \E r \in SequentialReqs : risk_entry_fairness_component(r)
    \/ \E r \in SequentialReqs : risk_entry_commit(r)
    \/ \E r \in SequentialReqs : evaluate_governance(r)
    \/ \E r \in SequentialReqs : evaluate_commit(r)
    \/ \E r \in SequentialReqs, write_ok \in BOOLEAN : evaluate_audit(r, write_ok)

SpecPipeline == InitPipeline /\ [][NextPipeline]_vars

(* Two background tasks in flight on a stored table of 10 or of 17         *)
(* prediction logs: the drift task and the fairness task, each followed by *)
(* create_risk_history_entry                                               *)
InitRiskEntry ==
    /\ InitDrift
    /\ LogCount(prediction_logs) \in {10, 17}

NextRiskEntry ==
    \/ \E r \in Reqs : background_drift_calculation(r, 1)
    \/ \E r \in Reqs : background_fairness_calculation(r)
    \/ \E r \in Reqs : risk_entry_mri_score(r)
    \/ \E r \in Reqs : risk_entry_drift_component(r)
    \/ \E r \in Reqs : risk_entry_fairness_component(r)
    \/ \E r \in Reqs : risk_entry_commit(r)

SpecRiskEntry == InitRiskEntry /\ [][NextRiskEntry]_vars

(* Two calls of the demo simulation in flight on a draft model without     *)
(* prediction logs, each step with the failure of its commit               *)
NextRunSimulation ==
    \/ \E r \in Reqs : run_simulation_check(r)
    \/ \E r \in Reqs, write_ok \in BOOLEAN : insert_prediction_logs(r, write_ok)
    \/ \E r \in Reqs, write_ok \in BOOLEAN : run_simulation_drift(r, write_ok)
    \/ \E r \in Reqs, write_ok \in BOOLEAN : run_simulation_fairness(r, write_ok)
    \/ \E r \in Reqs, write_ok \in BOOLEAN : run_simulation_history(r, write_ok)
    \/ \E r \in Reqs, write_ok \in BOOLEAN : run_simulation_status(r, write_ok)

SpecRunSimulation == Init /\ [][NextRunSimulation]_vars

-----------------------------------------------------------------------------
(* Properties *)

(* The step in which request r runs the reads of evaluate_model_governance *)
EvaluationStep(r) ==
    \/ req[r].pc \in {"idle", "done"} /\ req'[r].pc \notin {"idle", "done"}
    \/ req[r].pc = "fallback" /\ req'[r].pc # "fallback"

(* The step in which request r leaves the deployment gate *)
GateStep(r) == req[r].pc = "gate" /\ req'[r].pc # "gate"

(* C1: a deploy call whose evaluation returned blocked is denied with the  *)
(* hard-block 403, whatever the override flag, and that call changes       *)
(* neither the status nor the deployment_status of the model.              *)
C1_BlockedIsDenied ==
    [][\A r \in Reqs :
        (GateStep(r) /\ req[r].result.status = "blocked") =>
            /\ req'[r].pc = "done"
            /\ req'[r].outcome = "403_hard_block"
            /\ status' = status
            /\ deployment_status' = deployment_status]_vars

(* A deploy call with override=true that was denied on a blocked verdict *)
C1_Witness ==
    \E r \in Reqs :
        /\ req[r].pc = "done"
        /\ req[r].kind = "deploy"
        /\ req[r].override
        /\ req[r].result.status = "blocked"
        /\ req[r].outcome = "403_hard_block"
        /\ status = "blocked"
        /\ deployment_status # "deployed"

(* C3: with an active policy the evaluation of the latest risk score and   *)
(* the latest disparity returns blocked (max-MRI reason) when the risk is  *)
(* above max_allowed_mri; else at_risk (fairness reason) when the          *)
(* disparity is above max_allowed_disparity; else at_risk (approval        *)
(* reason) when the risk is above approval_required_above_mri; else        *)
(* approved.  A value equal to a threshold does not fire its rule.         *)
C3_RulePrecedence ==
    [][\A r \in Reqs :
        (EvaluationStep(r) /\ ActivePolicyIds # {}) =>
            \E p \in ActivePolicyIds :
                LET risk == LatestRiskScore(risk_history)
                    disparity == LatestDisparityScore(fairness_metrics)
                    result == req'[r].result
                    hard == risk > policies[p].max_allowed_mri
                    unfair == disparity > policies[p].max_allowed_disparity
                    soft == risk > policies[p].approval_required_above_mri
                IN  /\ hard =>
                          /\ result.status = "blocked"
                          /\ result.reason = ReasonMaxMri
                    /\ (~hard /\ unfair) =>
                          /\ result.status = "at_risk"
                          /\ result.reason = ReasonDisparity
                    /\ (~hard /\ ~unfair /\ soft) =>
                          /\ result.status = "at_risk"
                          /\ result.reason = ReasonApproval
                    /\ (~hard /\ ~unfair /\ ~soft) =>
                          /\ result.status = "approved"
                          /\ result.reason = ReasonPassed
                    /\ result.scores = <<risk, disparity>>]_vars

(* An evaluation of a risk equal to max_allowed_mri and a disparity equal  *)
(* to max_allowed_disparity: neither ceiling fires, the approval rule does *)
C3_Witness ==
    \E r \in Reqs :
        /\ req[r].pc \notin {"idle"}
        /\ req[r].policy # NoPolicy
        /\ req[r].metrics = <<req[r].policy.max_allowed_mri,
                              req[r].policy.max_allowed_disparity>>
        /\ req[r].result.status = "at_risk"
        /\ req[r].result.reason = ReasonApproval

(* C4: a deploy call whose evaluation returned at_risk is allowed exactly  *)
(* when override was requested: without override it is denied with the     *)
(* soft-gate 403 and changes no status; with override it sets status and   *)
(* deployment_status to deployed and returns success.                      *)
C4_AtRiskNeedsOverride ==
    /\ [][\A r \in Reqs :
            (GateStep(r) /\ req[r].result.status = "at_risk") =>
                IF req[r].override
                THEN /\ status' = "deployed"
                     /\ deployment_status' = "deployed"
                     /\ req'[r].pc = "audit"
                ELSE /\ req'[r].pc = "done"
                     /\ req'[r].outcome = "403_soft_gate"
                     /\ status' = status
                     /\ deployment_status' = deployment_status]_vars
    /\ [](\A r \in Reqs :
            (req[r].pc = "done" /\ req[r].kind = "deploy"
                /\ req[r].result.status = "at_risk") =>
                (req[r].outcome = "200_deployed" <=> req[r].override))

(* An at_risk model that was refused without override (the rejection is in *)
(* the audit trail) and then deployed with override                        *)
C4_Witness ==
    /\ \E i \in 1..Len(audit_log) :
            /\ audit_log[i].action_status = "rejected"
            /\ audit_log[i].governance_status = "at_risk"
    /\ \E r \in Reqs :
            /\ req[r].pc = "done"
            /\ req[r].kind = "deploy"
            /\ req[r].override
            /\ req[r].result.status = "at_risk"
            /\ req[r].outcome = "200_deployed"
            /\ status = "deployed"

(* C5: with no active policy the evaluation returns the stored status with *)
(* the reason "No active policy", writes nothing (neither in that step nor *)
(* in a later commit of the evaluation) and raises no error.               *)
C5_NoPolicyFailsOpen ==
    [][\A r \in Reqs :
        (EvaluationStep(r) /\ ActivePolicyIds = {}) =>
            /\ req'[r].result.status = status
            /\ req'[r].result.reason = ReasonNoPolicy
            /\ req'[r].pc \in {"gate", "audit", "fallback", "done"}
            /\ req'[r].outcome \in {None, "200_ok"}
            /\ status' = status
            /\ deployment_status' = deployment_status]_vars

(* An evaluate call without a policy that returned the blocked status an   *)
(* earlier evaluation had stored                                           *)
C5_Witness ==
    \E r \in Reqs :
        /\ req[r].pc = "done"
        /\ req[r].kind = "evaluate"
        /\ req[r].result.reason = ReasonNoPolicy
        /\ req[r].result.status = "blocked"
        /\ req[r].outcome = "200_ok"
        /\ status = "blocked"

(* The audit write of request r, attempted in this step, failed *)
AuditFailureStep(r) == req'[r].audit_failures > req[r].audit_failures

(* C7: a deploy call that reached the gate has called the audit recorder   *)
(* exactly once when it returns or raises, on the hard-block denial, the   *)
(* soft-gate denial and the allow branch alike, and never before.          *)
C7_ExactlyOneAuditCall ==
    \A r \in Reqs :
        req[r].kind = "deploy" =>
            /\ req[r].pc = "done" => req[r].audit_attempts = 1
            /\ req[r].pc \in {"eval_commit", "gate", "audit"} =>
                    req[r].audit_attempts = 0

(* The three branches have been taken: a hard-block and a soft-gate        *)
(* denial are in the audit trail and the last deploy call was allowed      *)
C7_Witness ==
    /\ \E r \in Reqs :
            /\ req[r].pc = "done"
            /\ req[r].kind = "deploy"
            /\ req[r].outcome = "200_deployed"
            /\ req[r].audit_attempts = 1
    /\ \E i \in 1..Len(audit_log) : audit_log[i].details = "soft_gate"

(* C8: when the audit write of an evaluate or deploy call fails, the call  *)
(* still ends with the decision it had reached (success of the             *)
(* evaluation, success of the deployment, or the 403 of the denial) and    *)
(* the failure changes neither status nor deployment_status.               *)
C8_AuditFailureKeepsDecision ==
    [][\A r \in Reqs :
        AuditFailureStep(r) =>
            /\ status' = status
            /\ deployment_status' = deployment_status
            /\ audit_log' = audit_log
            /\ req'[r].pc = "done"
            /\ req'[r].outcome =
                    CASE req[r].kind = "evaluate" -> "200_ok"
                      [] req[r].pc = "audit" -> "200_deployed"
                      [] req[r].result.status = "blocked" -> "403_hard_block"
                      [] OTHER -> "403_soft_gate"]_vars

(* A deployment that succeeded although its audit record was not written *)
C8_Witness ==
    \E r \in Reqs :
        /\ req[r].pc = "done"
        /\ req[r].kind = "deploy"
        /\ req[r].audit_failures = 1
        /\ req[r].outcome = "200_deployed"
        /\ status = "deployed"
        /\ deployment_status = "deployed"
        /\ audit_log = <<>>

(* C9: every operation that ran the governance evaluation under an active  *)
(* policy, and so wrote the status of the model, has called the audit      *)
(* recorder by the time it returns: the evaluate endpoint, the deploy      *)
(* endpoint and the governance-explanation endpoint.                       *)
C9_EveryDecisionAudited ==
    \A r \in Reqs :
        (req[r].pc = "done" /\ req[r].result.reason # ReasonNoPolicy) =>
            req[r].audit_attempts >= 1

(* C10: an allowed deployment reports override_used, in its response and   *)
(* in its audit record, exactly when the verdict was at_risk and override  *)
(* was requested; on an approved verdict it reports no override, whatever  *)
(* the flag.                                                               *)
C10_OverrideUsed ==
    /\ [](\A r \in Reqs :
            (req[r].pc = "done" /\ req[r].outcome = "200_deployed") =>
                /\ req[r].override_used <=>
                        (req[r].result.status = "at_risk" /\ req[r].override)
                /\ req[r].result.status = "approved" => ~req[r].override_used)
    /\ [][\A r \in Reqs :
            (req[r].pc = "audit" /\ req[r].kind = "deploy"
                /\ Len(audit_log') = Len(audit_log) + 1) =>
                LET entry == audit_log'[Len(audit_log')]
                IN  /\ entry.action_status = "success"
                    /\ entry.governance_status = req[r].result.status
                    /\ entry.override_used =
                            IF req[r].result.status = "at_risk"
                               /\ req[r].override
                            THEN "yes" ELSE "no"]_vars

(* A deployment on an approved verdict, requested with override=true, that *)
(* is recorded and answered with no override used                          *)
C10_Witness ==
    \E r \in Reqs :
        /\ req[r].pc = "done"
        /\ req[r].outcome = "200_deployed"
        /\ req[r].override
        /\ req[r].result.status = "approved"
        /\ ~req[r].override_used
        /\ audit_log # <<>>
        /\ audit_log[Len(audit_log)].action_status = "success"
        /\ audit_log[Len(audit_log)].override_used = "no"

(* The active policy blocks the model on the metrics committed now *)
BlockedOnCommittedMetrics ==
    /\ ActivePolicyIds # {}
    /\ \A p \in ActivePolicyIds :
            LatestRiskScore(risk_history) > policies[p].max_allowed_mri

(* C2: the evaluation of a deploy call and its write of status deployed    *)
(* are atomic: no deploy call that evaluated the model under an active     *)
(* policy writes status deployed at a moment when the committed metrics    *)
(* block the model and another request has already stored status blocked.  *)
C2_GateIsAtomic ==
    [][\A r \in Reqs :
        (req[r].pc = "gate" /\ req'[r].pc = "audit"
            /\ req[r].policy # NoPolicy) =>
            ~(status = "blocked" /\ BlockedOnCommittedMetrics)]_vars

(* The result evaluate_model_governance returns on the database as it is   *)
(* now, when its policy query returns this policy                          *)
ResultNow(policy) ==
    IF policy = NoPolicy THEN NoPolicyResult(status)
    ELSE EvaluationResult(LatestRiskScore(risk_history),
                          LatestDisparityScore(fairness_metrics), policy)

(* A deploy call made now sees the policy and the metrics request r saw *)
SameInputsNow(r) ==
    /\ req[r].policy \in PolicyQuery
    /\ req[r].metrics = <<LatestRiskScore(risk_history),
                          LatestDisparityScore(fairness_metrics)>>

(* A deploy call made now with the override flag of r is allowed exactly   *)
(* when r was                                                              *)
SameDecisionNow(r) ==
    (GateDecision(ResultNow(req[r].policy).status, req[r].override) = "deploy")
        <=> (req[r].outcome = "200_deployed")

(* C6 as claimed: the outcome of a deploy call does not depend on the      *)
(* stored status: a deploy call made on the same policy state, the same    *)
(* metrics and the same override flag as a finished deploy call reaches    *)
(* the decision that call reached, whatever status is stored now.          *)
C6_OutcomeIgnoresStoredStatus ==
    \A r \in Reqs :
        (req[r].pc = "done" /\ req[r].kind = "deploy" /\ SameInputsNow(r))
            => SameDecisionNow(r)

(* C6 as amended: the same, for deploy calls whose evaluation found an     *)
(* active policy.                                                          *)
C6_OutcomeIgnoresStoredStatusUnderPolicy ==
    \A r \in Reqs :
        (req[r].pc = "done" /\ req[r].kind = "deploy" /\ SameInputsNow(r)
            /\ req[r].policy # NoPolicy)
            => SameDecisionNow(r)

(* A finished deploy call that found the policy, metrics and override a    *)
(* call made now would find, on another stored status: it started from     *)
(* deployed and was refused, and the stored status now is what its         *)
(* evaluation wrote                                                        *)
C6_Witness ==
    \E r \in Reqs :
        /\ req[r].pc = "done"
        /\ req[r].kind = "deploy"
        /\ req[r].policy # NoPolicy
        /\ SameInputsNow(r)
        /\ req[r].prev_status = "deployed"
        /\ req[r].outcome = "403_hard_block"
        /\ status = "blocked"

(* The step in which request r commits the status its evaluation computed *)
CommitStep(r) == req[r].pc = "eval_commit" /\ req'[r].pc # "eval_commit"

(* C11: an allowed deploy sets status to deployed, and deployed is not     *)
(* protected: an evaluation under an active policy that finds the model    *)
(* deployed overwrites the status with the approved, at_risk or blocked it *)
(* computed, and leaves deployment_status as it is.                        *)
C11_DeployedIsReevaluated ==
    [][\A r \in Reqs :
        /\ (GateStep(r) /\ req'[r].pc = "audit") => status' = "deployed"
        /\ (CommitStep(r) /\ status = "deployed") =>
                /\ status' = req[r].result.status
                /\ status' \in {"approved", "at_risk", "blocked"}
                /\ deployment_status' = deployment_status]_vars

(* A deployed model that an evaluate call found deployed and left blocked *)
C11_Witness ==
    \E r \in Reqs :
        /\ req[r].kind = "evaluate"
        /\ req[r].pc \in {"audit", "done"}
        /\ req[r].prev_status = "deployed"
        /\ req[r].policy # NoPolicy
        /\ deployment_status = "deployed"
        /\ status = "blocked"

(* C12: concurrent evaluations serialize their evaluate-then-write step:   *)
(* no evaluation that read older metric rows overwrites the status stored  *)
(* by an evaluation that read the rows that are the latest now.            *)
C12_NoLostUpdate ==
    [][\A r \in Reqs :
        CommitStep(r) =>
            ~ \E q \in Reqs \ {r} :
                /\ req[q].pc \in {"gate", "audit", "done"}
                /\ req[q].policy # NoPolicy
                /\ req[q].metrics = <<LatestRiskScore(risk_history),
                                      LatestDisparityScore(fairness_metrics)>>
                /\ req[r].metrics # req[q].metrics
                /\ status = req[q].result.status
                /\ status' # status]_vars

(* The rule that fired in a result of evaluate_model_governance *)
RuleOfEvaluation(result) ==
    CASE result.reason = ReasonMaxMri -> "hard_block"
      [] result.reason = ReasonDisparity -> "fairness"
      [] result.reason = ReasonApproval -> "approval"
      [] result.reason = ReasonPassed -> "pass"

(* The rule that fired in a result of simulate_governance_check *)
RuleOfSimulation(result) ==
    CASE result.details.risk_evaluation = "BLOCKED" -> "hard_block"
      [] result.details.fairness_evaluation = "AT_RISK" -> "fairness"
      [] result.details.risk_evaluation = "APPROVAL_REQUIRED" -> "approval"
      [] result.details.risk_evaluation = "APPROVED" -> "pass"

(* A finished call of the governance simulation that found a policy *)
SimulationDone(r) ==
    /\ req[r].pc = "done"
    /\ req[r].kind = "governance_check"
    /\ req[r].outcome = "200_ok"

C14_ComplianceGrade ==
    \A r \in Reqs :
        SimulationDone(r) =>
            LET result == req[r].result
                rule == RuleOfSimulation(result)
            IN  /\ result.compliance_grade =
                        CASE rule = "pass" -> "A"
                          [] rule = "hard_block" -> "F"
                          [] rule = "approval" /\ req[r].override -> "C"
                          [] rule = "fairness" /\ req[r].override -> "D"
                          [] OTHER -> "F"
                /\ ~result.would_pass => result.compliance_grade = "F"

(* a is an initial part of b *)
IsPrefix(a, b) == Len(a) <= Len(b) /\ SubSeq(b, 1, Len(a)) = a

(* C15: every risk_history row, written by the Risk Composer or by the     *)
(* staged history of the demo simulation, has                              *)
(* risk_score = round(clamp(drift_component * 0.6 + fairness_component *   *)
(* 0.4, 0, 100), 2), and its three values lie in 0..100.                   *)
C15_RiskScoreFormula ==
    \A i \in DOMAIN risk_history :
        /\ risk_history[i].risk_score =
                calculate_mri_score(risk_history[i].drift_component,
                                    risk_history[i].fairness_component)
        /\ risk_history[i].risk_score \in 0..10000
        /\ risk_history[i].drift_component \in 0..10000
        /\ risk_history[i].fairness_component \in 0..10000

(* C16: whatever the order in which the risk_history rows were inserted,   *)
(* the risk score that a governance evaluation reads is the risk score of  *)
(* a row whose timestamp is the greatest of the table.                     *)
C16_LatestRiskIsMaxTimestamp ==
    [][\A r \in Reqs :
        (EvaluationStep(r) /\ req'[r].kind = "evaluate" /\ risk_history # <<>>) =>
            \E i \in DOMAIN risk_history :
                /\ req'[r].metrics[1] = risk_history[i].risk_score
                /\ \A j \in DOMAIN risk_history :
                        risk_history[j].timestamp <= risk_history[i].timestamp]_vars

(* An evaluation has read a table whose last inserted row is older than,   *)
(* and scored differently from, the row it read                            *)
C16_Witness ==
    \E r \in Reqs :
        /\ req[r].kind = "evaluate"
        /\ req[r].pc = "eval_commit"
        /\ Len(risk_history) >= 2
        /\ risk_history[Len(risk_history)].timestamp < MaxTimestamp(risk_history)
        /\ risk_history[Len(risk_history)].risk_score # req[r].metrics[1]
        /\ req[r].metrics[1] = LatestRiskScore(risk_history)

(* The step in which a task commits the row of create_risk_history_entry *)
RiskEntryCommitStep(r) ==
    req[r].pc = "risk_commit" /\ req'[r].pc # "risk_commit"

(* C17: a call of create_risk_history_entry appends exactly one row to     *)
(* risk_history, the row it built, and changes or removes no row that was  *)
(* there; until its commit it leaves the table alone.                      *)
C17_OneRowAppended ==
    [][\A r \in Reqs :
        /\ RiskEntryCommitStep(r) =>
                /\ Len(risk_history') = Len(risk_history) + 1
                /\ IsPrefix(risk_history, risk_history')
                /\ risk_history'[Len(risk_history')] = req[r].risk_entry
        /\ (req'[r].pc = "risk_commit" /\ req[r].pc # "risk_commit") =>
                risk_history' = risk_history]_vars

(* A task has committed its row into a table that held a row *)
C17_Witness ==
    \E r \in Reqs :
        /\ req[r].kind \in {"drift", "fairness"}
        /\ req[r].pc = "done"
        /\ Len(risk_history) >= 2

(* The step in which a task runs calculate_fairness_for_model *)
FairnessRunStep(r) ==
    req[r].pc \in {"idle", "done"} /\ req'[r].pc = "risk_entry"

(* The rows that a step added at the end of fairness_metrics *)
NewFairnessRows ==
    SubSeq(fairness_metrics', Len(fairness_metrics) + 1, Len(fairness_metrics'))

(* C18: one run of the fairness evaluation stores one row for each         *)
(* distinct value of the protected attribute in the logs; the rows of the  *)
(* run carry the same disparity_score, the greatest approval rate minus    *)
(* the smallest (0 for one group), and the same fairness_flag.             *)
C18_OneRowPerGroup ==
    [][\A r \in Reqs :
        FairnessRunStep(r) =>
            LET logs == req'[r].metrics
                rows == NewFairnessRows
                rates == {rows[i].approval_rate : i \in DOMAIN rows}
            IN  /\ IsPrefix(fairness_metrics, fairness_metrics')
                /\ {rows[i].group_name : i \in DOMAIN rows}
                        = {logs[j].group : j \in DOMAIN logs}
                /\ \A i, j \in DOMAIN rows :
                        /\ rows[i].group_name = rows[j].group_name => i = j
                        /\ rows[i].disparity_score = rows[j].disparity_score
                        /\ rows[i].fairness_flag = rows[j].fairness_flag
                /\ \A i \in DOMAIN rows :
                        /\ \E hi, lo \in rates :
                                /\ \A x \in rates : lo <= x /\ x <= hi
                                /\ rows[i].disparity_score = hi - lo
                        /\ Len(rows) = 1 => rows[i].disparity_score = 0]_vars

(* A run has stored the rows of two groups with different approval rates *)
C18_Witness ==
    \E r \in Reqs :
        /\ req[r].kind = "fairness"
        /\ req[r].pc = "risk_entry"
        /\ Len(fairness_metrics) >= 2
        /\ LET last == fairness_metrics[Len(fairness_metrics)]
               before == fairness_metrics[Len(fairness_metrics) - 1]
           IN  /\ last.group_name # before.group_name
               /\ last.timestamp = before.timestamp
               /\ last.approval_rate # before.approval_rate
               /\ last.disparity_score > 0

(* C19: the rows of the metric tables are never changed once they are      *)
(* stored: a step of any operation, the demo simulation included, only     *)
(* adds rows to risk_history and fairness_metrics, or it is the reset that *)
(* deletes every row of both.                                              *)
C19_MetricRowsImmutable ==
    [][\/ /\ IsPrefix(risk_history, risk_history')
          /\ IsPrefix(fairness_metrics, fairness_metrics')
       \/ /\ risk_history' = <<>>
          /\ fairness_metrics' = <<>>]_vars

(* C20: no step of an evaluation, a deployment, the policy administration, *)
(* the demo simulation or its reset changes or deletes an audit record:    *)
(* the audit log only grows at its end.                                    *)
C20_AuditLogAppendOnly ==
    [][IsPrefix(audit_log, audit_log')]_vars

(* The audit records of a model outlive a demo simulation and its reset *)
C20_Witness ==
    \E r \in Reqs :
        /\ audit_log # <<>>
        /\ req[r].kind = "simulation"
        /\ req[r].pc = "done"
        /\ status = "draft"
        /\ risk_history = <<>>

(* The step in which a step of run_simulation fails and request r ends    *)
(* with HTTP 500                                                           *)
SimulationFailureStep(r) ==
    /\ req[r].kind = "run_simulation"
    /\ req[r].pc # "done"
    /\ req'[r].outcome = "500_error"

(* C21: a run of run_simulation that fails at any step (log insertion,     *)
(* drift, fairness, staged risk history, status update) leaves no partial  *)
(* write: the rows and the status change of that run are rolled back, so   *)
(* that a model on which no other call has run is as it was before the     *)
(* run, without logs and without metric rows, and the simulation can be    *)
(* run again.                                                              *)
C21_FailedSimulationLeavesNothing ==
    [][\A r \in Reqs :
        (SimulationFailureStep(r)
            /\ \A q \in Reqs \ {r} : req[q].kind = None) =>
            /\ prediction_logs' = <<>>
            /\ drift_metrics' = <<>>
            /\ fairness_metrics' = <<>>
            /\ risk_history' = <<>>
            /\ status' = DefaultStatus]_vars

(* The step in which request r commits the logs of a simulation run *)
SimulationInsertStep(r) ==
    req[r].pc = "sim_insert" /\ req'[r].pc = "sim_drift"

(* C22: run_simulation is refused with an error and writes nothing when    *)
(* the model has a prediction log, and a simulation run inserts its logs   *)
(* only into a model without logs: without a reset, at most one run        *)
(* inserts logs for the model.                                             *)
C22_AtMostOneRunInsertsLogs ==
    [][\A r \in Reqs :
        /\ (/\ req[r].pc \in {"idle", "done"}
            /\ req'[r].kind = "run_simulation"
            /\ req'[r] # req[r]
            /\ prediction_logs # <<>>) =>
                /\ req'[r].pc = "done"
                /\ req'[r].outcome \in {"400_already_simulated", "409_conflict"}
                /\ UNCHANGED <<status, prediction_logs, drift_metrics,
                               fairness_metrics, risk_history>>
        /\ SimulationInsertStep(r) =>
                /\ prediction_logs = <<>>
                /\ LogCount(prediction_logs') = 500]_vars

(* The step in which request r runs calculate_drift_for_model and commits *)
DriftCalculationStep(r) ==
    \/ /\ req[r].pc \in {"idle", "done"}
       /\ req'[r].kind = "drift"
       /\ req'[r].pc \in {"risk_mri", "done"}
    \/ /\ req[r].pc = "log_drift"
       /\ req'[r].pc = "risk_mri"

(* The step in which request r runs calculate_fairness_for_model on the    *)
(* stored logs and commits                                                 *)
FairnessCalculationStep(r) ==
    /\ req[r].pc \in {"idle", "done"}
    /\ req'[r].kind = "fairness"
    /\ req'[r].pc = "risk_mri"

(* The step in which create_risk_history_entry computes the risk score *)
RiskCompositionStep(r) == req[r].pc = "risk_mri" /\ req'[r].pc # "risk_mri"

(* C23: on a registered model that has no prediction logs, the drift       *)
(* calculation returns the empty list and stores nothing, the fairness     *)
(* calculation returns disparity 0, flag false and no groups and stores    *)
(* nothing, the risk composition builds and stores a row with risk_score   *)
(* 0, and the governance evaluation under an active policy whose           *)
(* thresholds are all greater than 0 returns approved.                     *)
C23_EmptyModelIsApproved ==
    [][\A r \in Reqs :
        prediction_logs = <<>> =>
            /\ DriftCalculationStep(r) =>
                    /\ req'[r].metrics.drift_metrics = <<>>
                    /\ drift_metrics' = drift_metrics
            /\ FairnessCalculationStep(r) =>
                    /\ req'[r].metrics.disparity_score = 0
                    /\ ~req'[r].metrics.fairness_flag
                    /\ req'[r].metrics.groups = <<>>
                    /\ fairness_metrics' = fairness_metrics
            /\ RiskCompositionStep(r) => req'[r].risk_entry.risk_score = 0
            /\ RiskEntryCommitStep(r) =>
                    /\ risk_history' = Append(risk_history, req[r].risk_entry)
                    /\ req[r].risk_entry.risk_score = 0
            /\ (/\ EvaluationStep(r)
                /\ req'[r].policy # NoPolicy
                /\ req'[r].policy.max_allowed_mri > 0
                /\ req'[r].policy.max_allowed_disparity > 0
                /\ req'[r].policy.approval_required_above_mri > 0) =>
                    req'[r].result.status = "approved"]_vars

(* An evaluation under a policy that returned approved and stored it for a *)
(* model without prediction logs, after the fairness task had stored a     *)
(* risk row of score 0                                                     *)
C23_Witness ==
    \E r \in Reqs :
        /\ prediction_logs = <<>>
        /\ drift_metrics = <<>>
        /\ fairness_metrics = <<>>
        /\ risk_history # <<>>
        /\ \A i \in DOMAIN risk_history : risk_history[i].risk_score = 0
        /\ req[r].kind = "evaluate"
        /\ req[r].pc = "done"
        /\ req[r].policy # NoPolicy
        /\ req[r].result.status = "approved"
        /\ status = "approved"

(* C24: calculate_drift_for_model creates no DriftMetric row for a feature *)
(* whose baseline sample or recent sample has fewer than 10 numeric        *)
(* values, and for a model that does not exist it returns the empty list   *)
(* and writes no row; it raises an error in neither case.                  *)
C24_SmallSamplesAndMissingModelAreSkipped ==
    [][\A r \in Reqs :
        DriftCalculationStep(r) =>
            LET returned == req'[r].metrics.drift_metrics
                small(feature_name) ==
                    \/ len(get_baseline_data(prediction_logs, feature_name)) < 10
                    \/ len(get_recent_data(prediction_logs, feature_name, 100)) < 10
            IN  /\ drift_metrics' = drift_metrics \o returned
                /\ \A feature_name \in FeatureNames :
                        small(feature_name) =>
                            \A i \in DOMAIN returned :
                                returned[i].feature_name # feature_name
                /\ req'[r].metrics.model_id \notin RegisteredModels =>
                        returned = <<>>
                /\ req'[r].outcome \in {None, "task_done"}]_vars

(* A drift calculation on 17 logs, 5 of them with a numeric               *)
(* transaction_amount, that stored a row for the prediction and none for   *)
(* the transaction_amount                                                  *)
C24_Witness ==
    \E r \in Reqs :
        /\ req[r].kind = "drift"
        /\ req[r].pc = "risk_mri"
        /\ len(get_baseline_data(prediction_logs, "transaction_amount")) = 5
        /\ LogCount(prediction_logs) = 17
        /\ Len(req[r].metrics.drift_metrics) = 1
        /\ req[r].metrics.drift_metrics[1].feature_name = "prediction"
        /\ drift_metrics = req[r].metrics.drift_metrics

(* C29: with drift and fairness tasks writing at the same time, the row    *)
(* that create_risk_history_entry stores is consistent: its risk_score is  *)
(* the 60/40 combination, clamped to 0..100 and rounded, of the            *)
(* drift_component and the fairness_component of that same row.            *)
C29_RiskRowFromOneSnapshot ==
    [][\A r \in Reqs :
        RiskEntryCommitStep(r) =>
            LET row == risk_history'[Len(risk_history')]
                sum == 6 * row.drift_component + 4 * row.fairness_component
            IN  /\ row = req[r].risk_entry
                /\ row.risk_score = (Min(100000, Max(0, sum)) + 5) \div 10]_vars

(* C30: with the window of 100, a drift calculation on a model that has    *)
(* between 10 and 100 prediction logs compares, for every feature, a       *)
(* baseline sample and a recent sample that hold the same values: every    *)
(* row it creates has PSI 0, KS 0 and drift_flag false.  A row with        *)
(* drift_flag true is created only on more than 100 logs.                  *)
C30_NoDriftUpToOneWindow ==
    [][\A r \in Reqs :
        DriftCalculationStep(r) =>
            LET returned == req'[r].metrics.drift_metrics
                logs == LogCount(prediction_logs)
            IN  /\ (logs >= 10 /\ logs <= 100) =>
                    /\ \A feature_name \in FeatureNames :
                            SameSample(
                                get_baseline_data(prediction_logs, feature_name),
                                get_recent_data(prediction_logs, feature_name, 100))
                    /\ \A i \in DOMAIN returned :
                            /\ returned[i].psi_value = 0
                            /\ returned[i].ks_statistic = 0
                            /\ ~returned[i].drift_flag
                /\ \A i \in DOMAIN returned :
                        returned[i].drift_flag => logs > 100]_vars

(* A drift calculation on 100 logs of two different values that stored the *)
(* rows of both numeric features, with PSI 0 and KS 0                      *)
C30_Witness ==
    \E r \in Reqs :
        /\ req[r].kind = "drift"
        /\ req[r].pc = "risk_mri"
        /\ LogCount(prediction_logs) = 100
        /\ Len(prediction_logs) = 2
        /\ Len(drift_metrics) = 2
        /\ \A i \in DOMAIN drift_metrics :
                /\ drift_metrics[i].psi_value = 0
                /\ drift_metrics[i].ks_statistic = 0
                /\ ~drift_metrics[i].drift_flag

(* C25: a deploy call sets the status to deployed only if the evaluation   *)
(* inside that call returned approved, or returned at_risk and the         *)
(* override was requested; on any other returned status the call is        *)
(* denied.                                                                 *)
C25_DeployedOnlyIfApprovedOrOverridden ==
    [][\A r \in Reqs :
        (GateStep(r) /\ req[r].kind = "deploy") =>
            IF \/ req[r].result.status = "approved"
               \/ req[r].result.status = "at_risk" /\ req[r].override
            THEN TRUE
            ELSE /\ req'[r].pc = "done"
                 /\ req'[r].outcome \notin {None, "200_deployed"}
                 /\ status' = status]_vars

(* C26: while no policy is active, a deploy call on a model whose stored   *)
(* status denotes a block, written by an earlier evaluation or by the demo *)
(* simulation, is denied, with or without the override.                    *)
C26_BlockedStaysUndeployableWithoutPolicy ==
    [][\A r \in Reqs :
        (/\ GateStep(r)
         /\ req[r].kind = "deploy"
         /\ req[r].policy = NoPolicy
         /\ lower(req[r].result.status) = "blocked") =>
            /\ status' # "deployed"
            /\ req'[r].pc = "done"]_vars

(* C27: in every reachable state the status of the model is one of draft,  *)
(* approved, at_risk, blocked, deployed and archived, whichever operation  *)
(* wrote it last.                                                          *)
C27_StatusInEnumeration ==
    status \in {"draft", "approved", "at_risk", "blocked", "deployed",
                "archived"}

(* C28: after any sequence of policy creations, updates and deletions at   *)
(* most one governance policy is active, so that the policy an evaluation  *)
(* selects is uniquely determined.                                         *)
C28_AtMostOneActivePolicy ==
    /\ Cardinality(ActivePolicyIds) <= 1
    /\ Cardinality(PolicyQuery) = 1


====
